---- MODULE Spec2Model ----
(***************************************************************************)
(* A state-machine model of the Cameo webcam viewer:                       *)
(*   managers.py  CaptureManager (frame lifecycle, FPS estimate, lazy      *)
(*                video writer) and WindowManager (key polling);           *)
(*   cameo.py     Cameo.run (main loop) and Cameo.onKeypress;              *)
(*   filters.py   createCompositeFunc, the curve filters, strokeEdges and  *)
(*                the convolution filters with their fixed kernels;        *)
(*   utils.py     createCurveFunc, createLookupArray, applyLookupArray.    *)
(* The capture source, the clock, the preview window, the image encoder    *)
(* and the video writer are external collaborators: their outcomes are     *)
(* inputs, and the calls made to them are recorded in `ext`.               *)
(* The capture source is always present (Cameo passes cv2.VideoCapture(0)) *)
(* and decodes through retrieve(); the read() fallback of the accessor     *)
(* assigns its result the same way.  The frame size handed to the writer   *)
(* takes no part in what is checked here.                                  *)
(***************************************************************************)
EXTENDS Integers, Sequences, FiniteSets, TLC

VARIABLES
    \* ---- CaptureManager fields (managers.py 40-56)
    previewWindowManager,   \* TRUE iff a preview sink is attached
    shouldMirrorPreview,
    channel,                \* _channel
    enteredFrame,           \* _enteredFrame
    frame,                  \* _frame (NoFrame = None)
    imageFilename,          \* _imageFilename (None = no pending screenshot)
    videoFilename,          \* _videoFilename (None = not recording)
    videoEncoding,          \* _videoEncoding
    videoWriter,            \* _videoWriter (NoWriter = None)
    startTime,              \* _startTime (NoTime = None)
    framesElapsed,          \* _framesElapsed
    fpsEstimate,            \* _fpsEstimate (NoRate = None)
    \* ---- external collaborators
    capFps,                 \* what capture.get(CAP_PROP_FPS) reports
    now,                    \* what time.time() returns
    \* ---- Cameo / WindowManager (cameo.py 39-64, managers.py 272-274)
    isWindowCreated,        \* WindowManager._isWindowCreated
    filterIndex,            \* Cameo._filter_index
    pc,                     \* position of Cameo.run
    key,                    \* the key code cv2.waitKey returned last
    keypressCallback,       \* the WindowManager's key callback, or None
    \* ---- observation of the last operation
    op,                     \* name of the operation that acted last
    arg,                    \* the arguments it was called with
    ext,                    \* the external calls it made, in order
    ret,                    \* what the `frame` accessor returned to it, or
                            \* the result of a function of filters.py
    raised,                 \* TRUE iff it raised AssertionError
    \* ---- history
    lifecycle,              \* the last two enterFrame/exitFrame calls
    retrievals,             \* retrieve() calls since enterFrame last grabbed
                            \* (or since the channel last changed)
    built,                  \* writers constructed since the last stopWritingVideo
    openWriters,            \* ids of writers constructed and not yet released
    written,                \* frames written through the current writer
    recFrom,                \* frame count when the current recording began
    tabsOdd,                \* TRUE iff onKeypress has handled an odd number of tabs
    nextPresses             \* 'f' keys onKeypress has handled (capped)

mgr  == <<previewWindowManager, shouldMirrorPreview, channel, enteredFrame, frame,
          imageFilename, videoFilename, videoEncoding, videoWriter,
          startTime, framesElapsed, fpsEstimate>>
env  == <<capFps, now>>
\* the application, and the history of the keys it has handled
app  == <<isWindowCreated, filterIndex, pc, key, keypressCallback,
          tabsOdd, nextPresses>>
obs  == <<op, arg, ext, ret, raised>>
hist == <<lifecycle, retrievals, built, openWriters, written, recFrom>>
vars == <<mgr, env, app, obs, hist>>

----------------------------------------------------------------------------
(* Bounds of the model *)

\* frames the capture source delivers to a free client of CaptureManager
MaxFrames == 2
\* frames the capture source delivers in the recording scenario
MaxRecFrames == 22
\* frames the capture source delivers to Cameo.run
MaxRunFrames == 2
\* last tick of the clock
MaxTime == 1
\* last tick of the clock in the recording scenario
MaxRecTime == 2
\* cap of the `retrievals` history counter
MaxRetrievals == 2
\* cap of the `nextPresses` history counter
MaxNextPresses == 18

\* the longest lookup array asked of createLookupArray
MaxLength == 300
\* the largest key code cv2.waitKey returns
MaxKeyCode == 300

----------------------------------------------------------------------------
(* Values *)

None == "None"

\* a frame: one row of pixels, and the filter entries applied to it in place
Frame(px, fx) == [px |-> px, fx |-> fx]
NoFrame == Frame(<<>>, <<>>)
\* the decoded frames the capture source may hand out
Frames == {Frame(<<1, 2>>, <<>>), Frame(<<3, 3>>, <<>>)}

\* a frame rate: a number num/den, not-a-number, or missing
Num(n, d) == [kind |-> "num", num |-> n, den |-> d]
NaN    == [kind |-> "nan",  num |-> 0, den |-> 0]
NoRate == [kind |-> "none", num |-> 0, den |-> 0]

NoTime == -1

Writer(id, fn, enc, fps) == [id |-> id, filename |-> fn, encoding |-> enc, fps |-> fps]
NoWriter == Writer(0, None, None, NoRate)

\* cv2.VideoWriter_fourcc(*'XVID')
XVID == "XVID"
\* the fallback rate of _writeVideoFrame
DefaultFps == 30
\* frames that must have been counted before the estimate is used
MinFramesForEstimate == 20

Calls(s, name) == {i \in DOMAIN s : s[i][1] = name}
Count(s, name) == Cardinality(Calls(s, name))
Push(s, x) == IF Len(s) < 2 THEN Append(s, x) ELSE <<s[2], x>>

\* mutant: the preview frame is not flipped
MirrorNothing(f) == f

\* np.fliplr(frame).copy(): the row reversed, in a new buffer
Mirror(f) == Frame([i \in DOMAIN f.px |-> f.px[Len(f.px) + 1 - i]], f.fx)

----------------------------------------------------------------------------
(* CaptureManager *)

\* mutant: the accessor decodes whether or not a frame has been entered
FrameGetIdle(entered, fr, r) ==
    IF fr = NoFrame
    THEN [frame |-> r,  calls |-> << <<"retrieve", r>> >>]
    ELSE [frame |-> fr, calls |-> <<>>]

\* the `frame` property: decode on the first read of a cycle, else the cache.
\* r is what retrieve() hands back if it is called (NoFrame: res is False).
FrameGet(entered, fr, r) ==
    IF entered /\ fr = NoFrame
    THEN [frame |-> r,  calls |-> << <<"retrieve", r>> >>]
    ELSE [frame |-> fr, calls |-> <<>>]

Bump(n, k) == IF n + k > MaxRetrievals THEN MaxRetrievals ELSE n + k

\* fps == 0 or fps is None or np.isnan(fps)
Unusable(fps) ==
    \/ (fps.kind = "num" /\ fps.num = 0)
    \/ fps.kind = "none"
    \/ fps.kind = "nan"

\* mutant: a writer is constructed on every recorded frame
NeedsWriterAlways(vw) == TRUE

\* no writer yet: one has to be constructed (228)
NeedsWriter(vw) == vw = NoWriter

\* mutant: the current frame is not counted, the writer comes one frame early
DeferredEarly(fps, n) == Unusable(fps) /\ n < MinFramesForEstimate - 1

\* mutant: the comparison is <=, the writer comes one frame late
DeferredLate(fps, n) == Unusable(fps) /\ n <= MinFramesForEstimate

\* the construction is put off: too few frames for an estimate (232-234)
Deferred(fps, n) == Unusable(fps) /\ n < MinFramesForEstimate

\* mutant: the running estimate is ignored
WriterFpsDefault(fps, est) == IF Unusable(fps) THEN Num(DefaultFps, 1) ELSE fps

\* the rate handed to cv2.VideoWriter (232-236)
WriterFps(fps, est) ==
    IF Unusable(fps)
    THEN (IF est /= NoRate THEN est ELSE Num(DefaultFps, 1))
    ELSE fps

\* _writeVideoFrame: the writer afterwards and the calls made.
\* n is _framesElapsed (the current frame counted), est is _fpsEstimate.
WriteVideoFrame(vf, ve, vw, fps, n, est, fr) ==
    IF vf = None
    THEN [writer |-> vw, calls |-> <<>>]
    ELSE IF NeedsWriter(vw)
    THEN IF Deferred(fps, n)
         THEN [writer |-> vw, calls |-> <<>>]
         ELSE LET w == Writer(n, vf, ve, WriterFps(fps, est))
              IN  [writer |-> w,
                   calls  |-> << <<"VideoWriter", w>>, <<"write", w, fr>> >>]
    ELSE [writer |-> vw, calls |-> << <<"write", vw, fr>> >>]

\* enterFrame(); grabOk is what capture.grab() returns if it is called
EnterFrame(grabOk) ==
    /\ op' = "enterFrame"
    /\ arg' = <<>>
    /\ ret' = NoFrame
    /\ lifecycle' = Push(lifecycle, "enterFrame")
    /\ IF enteredFrame
       THEN /\ raised' = TRUE
            /\ ext' = <<>>
            /\ UNCHANGED <<enteredFrame, retrievals>>
       ELSE /\ raised' = FALSE
            /\ ext' = << <<"grab", grabOk>> >>
            /\ enteredFrame' = grabOk
            /\ retrievals' = 0
    /\ UNCHANGED <<previewWindowManager, shouldMirrorPreview, channel, frame,
                   imageFilename, videoFilename, videoEncoding, videoWriter,
                   startTime, framesElapsed, fpsEstimate>>
    /\ UNCHANGED <<env, built, openWriters, written, recFrom>>

\* a read of the `frame` property by the caller
ReadFrame(r) ==
    LET g == FrameGet(enteredFrame, frame, r) IN
    /\ op' = "frame"
    /\ arg' = <<>>
    /\ ret' = g.frame
    /\ raised' = FALSE
    /\ ext' = g.calls
    /\ frame' = g.frame
    /\ retrievals' = Bump(retrievals, Len(g.calls))
    /\ UNCHANGED <<previewWindowManager, shouldMirrorPreview, channel, enteredFrame,
                   imageFilename, videoFilename, videoEncoding, videoWriter,
                   startTime, framesElapsed, fpsEstimate>>
    /\ UNCHANGED <<env, lifecycle, built, openWriters, written, recFrom>>

\* mutant: the pending screenshot is dropped when there is no frame
ExitFrameNoFrameClearing(g) ==
    /\ enteredFrame' = FALSE
    /\ frame' = NoFrame
    /\ ext' = g.calls
    /\ imageFilename' = None
    /\ UNCHANGED <<videoWriter, startTime, framesElapsed,
                   fpsEstimate, built, openWriters, written>>

\* mutant: the early return is missing from the frame accounting
ExitFrameNoFrameCounting(g) ==
    /\ enteredFrame' = FALSE
    /\ frame' = NoFrame
    /\ ext' = g.calls
    /\ startTime' = IF framesElapsed = 0 THEN now ELSE startTime
    /\ framesElapsed' = framesElapsed + 1
    /\ UNCHANGED <<imageFilename, videoWriter,
                   fpsEstimate, built, openWriters, written>>

\* exitFrame() when self.frame is None (147-150)
ExitFrameNoFrame(g) ==
    /\ enteredFrame' = FALSE
    /\ frame' = NoFrame
    /\ ext' = g.calls
    /\ UNCHANGED <<imageFilename, videoWriter, startTime, framesElapsed,
                   fpsEstimate, built, openWriters, written>>

\* mutant: the frame being processed is counted into the estimate
FpsEstimateCounting(n, start, t, old) ==
    IF n = 0 THEN old
    ELSE IF t - start > 0 THEN Num(n + 1, t - start) ELSE old

\* _fpsEstimate after the FPS step (153-158); n is _framesElapsed before
\* the increment, t is what time.time() returns
FpsEstimate(n, start, t, old) ==
    IF n = 0 THEN old
    ELSE IF t - start > 0 THEN Num(n, t - start) ELSE old

\* exitFrame() with a frame (152-181)
ExitFrameWithFrame(g) ==
    LET n == framesElapsed + 1
        est == FpsEstimate(framesElapsed, startTime, now, fpsEstimate)
        shown == IF previewWindowManager
                 THEN << <<"show", IF shouldMirrorPreview
                                   THEN Mirror(g.frame) ELSE g.frame>> >>
                 ELSE <<>>
        saved == IF imageFilename /= None
                 THEN << <<"imwrite", imageFilename, g.frame>> >>
                 ELSE <<>>
        v == WriteVideoFrame(videoFilename, videoEncoding, videoWriter,
                             capFps, n, est, g.frame)
    IN
    /\ startTime' = IF framesElapsed = 0 THEN now ELSE startTime
    /\ fpsEstimate' = est
    /\ framesElapsed' = n
    /\ imageFilename' = None
    /\ videoWriter' = v.writer
    /\ ext' = g.calls \o shown \o saved \o v.calls
    /\ built' = built + Count(v.calls, "VideoWriter")
    /\ openWriters' = openWriters \cup
                      {v.calls[i][2].id : i \in Calls(v.calls, "VideoWriter")}
    /\ written' = IF Count(v.calls, "VideoWriter") > 0
                  THEN Count(v.calls, "write")
                  ELSE written + Count(v.calls, "write")
    /\ frame' = NoFrame
    /\ enteredFrame' = FALSE

\* exitFrame(); r is what retrieve() hands back if the accessor calls it
ExitFrame(r) ==
    LET g == FrameGet(enteredFrame, frame, r) IN
    /\ op' = "exitFrame"
    /\ arg' = <<>>
    /\ ret' = g.frame
    /\ raised' = FALSE
    /\ lifecycle' = Push(lifecycle, "exitFrame")
    /\ retrievals' = Bump(retrievals, Len(g.calls))
    /\ IF g.frame = NoFrame THEN ExitFrameNoFrame(g) ELSE ExitFrameWithFrame(g)
    /\ UNCHANGED <<previewWindowManager, shouldMirrorPreview, channel,
                   videoFilename, videoEncoding>>
    /\ UNCHANGED <<env, recFrom>>

\* the setter of the `channel` property (managers.py 68-78): a change of
\* channel drops the cached frame, so that the next read retrieves the frame
\* of the new channel; the count of retrievals starts again with it
SetChannel(value) ==
    /\ op' = "channel"
    /\ arg' = <<value>>
    /\ ret' = NoFrame
    /\ raised' = FALSE
    /\ ext' = <<>>
    /\ channel' = value
    /\ frame' = IF channel /= value THEN NoFrame ELSE frame
    /\ retrievals' = IF channel /= value THEN 0 ELSE retrievals
    /\ UNCHANGED <<previewWindowManager, shouldMirrorPreview, enteredFrame,
                   imageFilename, videoFilename, videoEncoding, videoWriter,
                   startTime, framesElapsed, fpsEstimate>>
    /\ UNCHANGED <<env, lifecycle, built, openWriters, written, recFrom>>

\* writeImage(filename)
WriteImage(fn) ==
    /\ op' = "writeImage"
    /\ arg' = <<fn>>
    /\ ret' = NoFrame
    /\ raised' = FALSE
    /\ ext' = <<>>
    /\ imageFilename' = fn
    /\ UNCHANGED <<previewWindowManager, shouldMirrorPreview, channel, enteredFrame,
                   frame, videoFilename, videoEncoding, videoWriter,
                   startTime, framesElapsed, fpsEstimate>>
    /\ UNCHANGED <<env, hist>>

\* startWritingVideo(filename, encoding); enc = None is the default argument
StartWritingVideo(fn, enc) ==
    /\ op' = "startWritingVideo"
    /\ arg' = <<fn, enc>>
    /\ ret' = NoFrame
    /\ raised' = FALSE
    /\ ext' = <<>>
    /\ videoFilename' = fn
    /\ videoEncoding' = IF enc = None THEN XVID ELSE enc
    /\ recFrom' = IF videoFilename = None THEN framesElapsed ELSE recFrom
    /\ UNCHANGED <<previewWindowManager, shouldMirrorPreview, channel, enteredFrame,
                   frame, imageFilename, videoWriter,
                   startTime, framesElapsed, fpsEstimate>>
    /\ UNCHANGED <<env, lifecycle, retrievals, built, openWriters, written>>

\* mutant: the writer is dropped without being released
ReleaseNothing(vw) == <<>>

\* the calls stopWritingVideo makes on the writer it holds
Release(vw) == IF vw /= NoWriter THEN << <<"release", vw>> >> ELSE <<>>

\* mutant: stopWritingVideo releases the writer and keeps holding it
StopWritingVideoKeepsWriter ==
    /\ op' = "stopWritingVideo"
    /\ arg' = <<>>
    /\ ret' = NoFrame
    /\ raised' = FALSE
    /\ ext' = Release(videoWriter)
    /\ videoFilename' = None
    /\ videoEncoding' = None
    /\ built' = 0
    /\ openWriters' = openWriters \ {ext'[i][2].id : i \in Calls(ext', "release")}
    /\ written' = 0
    /\ recFrom' = -1
    /\ UNCHANGED <<previewWindowManager, shouldMirrorPreview, channel, enteredFrame,
                   frame, imageFilename, videoWriter, startTime, framesElapsed,
                   fpsEstimate>>
    /\ UNCHANGED <<env, lifecycle, retrievals>>

\* stopWritingVideo()
StopWritingVideo ==
    /\ op' = "stopWritingVideo"
    /\ arg' = <<>>
    /\ ret' = NoFrame
    /\ raised' = FALSE
    /\ ext' = Release(videoWriter)
    /\ videoFilename' = None
    /\ videoEncoding' = None
    /\ videoWriter' = NoWriter
    /\ built' = 0
    /\ openWriters' = openWriters \ {ext'[i][2].id : i \in Calls(ext', "release")}
    /\ written' = 0
    /\ recFrom' = -1
    /\ UNCHANGED <<previewWindowManager, shouldMirrorPreview, channel, enteredFrame,
                   frame, imageFilename, startTime, framesElapsed, fpsEstimate>>
    /\ UNCHANGED <<env, lifecycle, retrievals>>

\* the clock advances, up to its last tick
Advance(most) ==
    /\ now < most
    /\ now' = now + 1
    /\ op' = "tick"
    /\ arg' = <<>>
    /\ ret' = NoFrame
    /\ raised' = FALSE
    /\ ext' = <<>>
    /\ UNCHANGED <<mgr, capFps, hist>>

Tick == Advance(MaxTime)

----------------------------------------------------------------------------
(* Inputs *)

ReportedRates == {Num(0, 1), NaN, NoRate, Num(25, 1)}
SomeRates == {NaN, Num(25, 1)}
ImageNames == {"screenshot.png", "other.png"}
\* channels a client may select
Channels == {0, 1}
\* (filename, encoding) arguments of startWritingVideo; None: the default
VideoArgs == {<<"screencast.avi", None>>, <<"other.avi", "MJPG">>}

\* what retrieve() may hand back
Retrieved == Frames \cup {NoFrame}
\* what grab() may return: the source delivers at most `most` frames
Grabbed(most) == IF framesElapsed < most THEN BOOLEAN ELSE {FALSE}

\* the state after CaptureManager.__init__ and Cameo.__init__, but for `arg`
\* and the key callback
InitFields ==
    /\ channel = 0
    /\ enteredFrame = FALSE
    /\ frame = NoFrame
    /\ imageFilename = None
    /\ videoFilename = None
    /\ videoEncoding = None
    /\ videoWriter = NoWriter
    /\ startTime = NoTime
    /\ framesElapsed = 0
    /\ fpsEstimate = NoRate
    /\ now = 0
    /\ isWindowCreated = FALSE
    /\ filterIndex = 0
    /\ pc = "start"
    /\ key = -1
    /\ op = "init"
    /\ ext = <<>>
    /\ ret = NoFrame
    /\ raised = FALSE
    /\ lifecycle = <<>>
    /\ retrievals = 0
    /\ built = 0
    /\ openWriters = {}
    /\ written = 0
    /\ recFrom = -1
    /\ tabsOdd = FALSE
    /\ nextPresses = 0

\* Cameo hands its onKeypress to the WindowManager (cameo.py 39)
InitState == InitFields /\ keypressCallback = "onKeypress"

\* the state after CaptureManager.__init__ and Cameo.__init__
InitManager == InitState /\ arg = <<>>

----------------------------------------------------------------------------
(* Spec: a free client of one CaptureManager *)

Init ==
    /\ InitManager
    /\ previewWindowManager \in BOOLEAN
    /\ shouldMirrorPreview \in BOOLEAN
    /\ capFps \in SomeRates

ApiEnterFrame == \E ok \in Grabbed(MaxFrames) : EnterFrame(ok) /\ UNCHANGED app
ApiReadFrame == \E r \in Retrieved : ReadFrame(r) /\ UNCHANGED app
ApiExitFrame == \E r \in Retrieved : ExitFrame(r) /\ UNCHANGED app
ApiWriteImage == \E fn \in ImageNames : WriteImage(fn) /\ UNCHANGED app
ApiStartWritingVideo ==
    \E a \in VideoArgs : StartWritingVideo(a[1], a[2]) /\ UNCHANGED app
ApiStopWritingVideo == StopWritingVideo /\ UNCHANGED app
ApiSetChannel == \E c \in Channels : SetChannel(c) /\ UNCHANGED app
ApiTick == Tick /\ UNCHANGED app

Next ==
    \/ ApiEnterFrame
    \/ ApiReadFrame
    \/ ApiExitFrame
    \/ ApiWriteImage
    \/ ApiStartWritingVideo
    \/ ApiStopWritingVideo
    \/ ApiSetChannel
    \/ ApiTick

Spec == Init /\ [][Next]_vars

----------------------------------------------------------------------------
(* SpecRec: a client that records over many frame cycles *)

InitRec ==
    /\ InitManager
    /\ previewWindowManager = TRUE
    /\ shouldMirrorPreview = TRUE
    /\ capFps \in ReportedRates

RecEnterFrame == \E ok \in Grabbed(MaxRecFrames) : EnterFrame(ok) /\ UNCHANGED app
RecExitFrame == \E r \in Retrieved : ExitFrame(r) /\ UNCHANGED app
RecStartWritingVideo == StartWritingVideo("screencast.avi", None) /\ UNCHANGED app
RecStopWritingVideo == StopWritingVideo /\ UNCHANGED app
RecTick == Advance(MaxRecTime) /\ UNCHANGED app

NextRec ==
    \/ RecEnterFrame
    \/ RecExitFrame
    \/ RecStartWritingVideo
    \/ RecStopWritingVideo
    \/ RecTick

SpecRec == InitRec /\ [][NextRec]_vars

----------------------------------------------------------------------------
(* Cameo (cameo.py) and WindowManager (managers.py 251-320) *)

\* names of the entries of Cameo._filters, in order
Filters == <<"none", "stroke", "portra", "provia", "velvia", "cross",
             "sharpen", "blur", "emboss">>

\* key codes cv2.waitKey may return; -1: no key was pressed
KeyCodes == {-1, 32, 9, 102, 113, 27, 65, 288}

\* an operation of the application that calls nothing outside it
Quiet(name) ==
    /\ op' = name
    /\ arg' = <<>>
    /\ ret' = NoFrame
    /\ raised' = FALSE
    /\ ext' = <<>>

\* the shape of the entry called `name` (51-61): None, or a tuple of the name
\* and a target, which is the function strokeEdges or an object with `apply`
Entry(name) ==
    IF name = "none"
    THEN [shape |-> "none", name |-> name, target |-> "none"]
    ELSE [shape |-> "tuple", name |-> name,
          target |-> IF name = "stroke" THEN "function" ELSE "object"]

\* mutant: tuple entries are handled by name only, the branch for a tuple
\* holding an object with `apply` is missing
DispatchNoTupleApply(e) ==
    IF e.shape = "none" THEN 1
    ELSE IF e.shape = "tuple" /\ e.name = "stroke" THEN 2
    ELSE IF e.shape = "object" THEN 4
    ELSE IF e.shape = "function" THEN 5
    ELSE 0

\* the branch of the if/elif chain that entry e takes (106-126); 0: none.
\* A tuple has no `apply` and is not callable.
Dispatch(e) ==
    IF e.shape = "none" THEN 1
    ELSE IF e.shape = "tuple" /\ e.name = "stroke" THEN 2
    ELSE IF e.shape = "tuple" /\ e.target = "object" THEN 3
    ELSE IF e.shape = "object" THEN 4
    ELSE IF e.shape = "function" THEN 5
    ELSE 0

\* the call each branch makes on the frame (107, 112, 117, 122, 126)
FilterCalls(e) ==
    CASE Dispatch(e) = 2 -> << <<"filters.strokeEdges", e.name>> >>
      [] Dispatch(e) = 3 -> << <<"entry[1].apply", e.name>> >>
      [] Dispatch(e) = 4 -> << <<"entry.apply", e.name>> >>
      [] Dispatch(e) = 5 -> << <<"entry()", e.name>> >>
      [] OTHER -> <<>>

\* the entry at index i applied to fr in place (run, 103-126)
ApplyFilter(i, fr) ==
    IF FilterCalls(Entry(Filters[i + 1])) = <<>> THEN fr
    ELSE Frame(fr.px, Append(fr.fx, Filters[i + 1]))

\* mutant: the index wraps one entry early
NextFilterIndexShort(i) == (i + 1) % (Len(Filters) - 1)

\* the index after the 'next filter' key (174)
NextFilterIndex(i) == (i + 1) % Len(Filters)

\* mutant: the manager never reports that it is recording
IsWritingVideoNever(vf) == FALSE

\* the isWritingVideo property (managers.py 113-121)
IsWritingVideo(vf) == vf /= None

\* mutant: the quit keys also stop the recording
OnKeypressQuitStops(k) ==
    IF k = 32 THEN
        /\ WriteImage("screenshot.png")
        /\ UNCHANGED <<isWindowCreated, filterIndex>>
    ELSE IF k = 9 THEN
        /\ IF ~IsWritingVideo(videoFilename)
           THEN StartWritingVideo("screencast.avi", None)
           ELSE StopWritingVideo
        /\ UNCHANGED <<isWindowCreated, filterIndex>>
    ELSE IF k = 102 THEN
        /\ Quiet("nextFilter")
        /\ filterIndex' = NextFilterIndex(filterIndex)
        /\ UNCHANGED <<mgr, env, hist, isWindowCreated>>
    ELSE IF k = 113 \/ k = 27 THEN
        /\ StopWritingVideo
        /\ isWindowCreated' = FALSE
        /\ UNCHANGED filterIndex
    ELSE
        /\ Quiet("onKeypress")
        /\ UNCHANGED <<mgr, env, hist, isWindowCreated, filterIndex>>

\* Cameo.onKeypress(keycode)
OnKeypress(k) ==
    IF k = 32 THEN
        /\ WriteImage("screenshot.png")
        /\ UNCHANGED <<isWindowCreated, filterIndex>>
    ELSE IF k = 9 THEN
        /\ IF ~IsWritingVideo(videoFilename)
           THEN StartWritingVideo("screencast.avi", None)
           ELSE StopWritingVideo
        /\ UNCHANGED <<isWindowCreated, filterIndex>>
    ELSE IF k = 102 THEN
        /\ Quiet("nextFilter")
        /\ filterIndex' = NextFilterIndex(filterIndex)
        /\ UNCHANGED <<mgr, env, hist, isWindowCreated>>
    ELSE IF k = 113 \/ k = 27 THEN
        /\ op' = "destroyWindow"
        /\ arg' = <<>>
        /\ ret' = NoFrame
        /\ raised' = FALSE
        /\ ext' = << <<"destroyWindow">> >>
        /\ isWindowCreated' = FALSE
        /\ UNCHANGED <<mgr, env, hist, filterIndex>>
    ELSE
        /\ Quiet("onKeypress")
        /\ UNCHANGED <<mgr, env, hist, isWindowCreated, filterIndex>>

\* the code handed to the callback: keycode &= 0xFF
LowByte(code) == code % 256

\* mutant: the callback gets the whole key code
KeypressCallsUnmasked(callback, keycode) ==
    IF callback /= None /\ keycode /= -1
    THEN << <<callback, keycode>> >>
    ELSE <<>>

\* the calls of the callback that processEvents makes for the key code that
\* cv2.waitKey(1) returned (managers.py 316-320)
KeypressCalls(callback, keycode) ==
    IF callback /= None /\ keycode /= -1
    THEN << <<callback, LowByte(keycode)>> >>
    ELSE <<>>

\* WindowManager.processEvents() of Cameo's window; code is what
\* cv2.waitKey(1) returns
ProcessEvents(code) ==
    /\ key' = code
    /\ tabsOdd' = (IF code /= -1 /\ LowByte(code) = 9 THEN ~tabsOdd ELSE tabsOdd)
    /\ nextPresses' = (IF code /= -1 /\ LowByte(code) = 102
                        /\ nextPresses < MaxNextPresses
                       THEN nextPresses + 1 ELSE nextPresses)
    /\ UNCHANGED keypressCallback
    /\ LET calls == KeypressCalls(keypressCallback, code)
       IN IF calls /= <<>>
          THEN OnKeypress(calls[1][2])
          ELSE /\ Quiet("processEvents")
               /\ UNCHANGED <<mgr, env, hist, isWindowCreated, filterIndex>>

\* run: createWindow() (81)
RunCreateWindow ==
    /\ pc = "start"
    /\ pc' = "test"
    /\ isWindowCreated' = TRUE
    /\ op' = "createWindow"
    /\ arg' = <<>>
    /\ ret' = NoFrame
    /\ raised' = FALSE
    /\ ext' = << <<"namedWindow">> >>
    /\ UNCHANGED <<mgr, env, hist, filterIndex, key,
                   keypressCallback, tabsOdd, nextPresses>>

\* run: the loop condition (87)
RunTest ==
    /\ pc = "test"
    /\ pc' = IF isWindowCreated THEN "enter" ELSE "done"
    /\ Quiet("test")
    /\ UNCHANGED <<mgr, env, hist, isWindowCreated, filterIndex, key,
                   keypressCallback, tabsOdd, nextPresses>>

\* run: enterFrame() (89); an AssertionError ends run
RunEnterFrame ==
    /\ pc = "enter"
    /\ \E ok \in Grabbed(MaxRunFrames) : EnterFrame(ok)
    /\ pc' = IF raised' THEN "crashed" ELSE "read"
    /\ UNCHANGED <<isWindowCreated, filterIndex, key,
                   keypressCallback, tabsOdd, nextPresses>>

\* run: frame = self._captureManager.frame, and the test of it (92-96)
RunReadFrame ==
    /\ pc = "read"
    /\ \E r \in Retrieved : ReadFrame(r)
    /\ pc' = IF ret' = NoFrame THEN "exitNoFrame" ELSE "filter"
    /\ UNCHANGED <<isWindowCreated, filterIndex, key,
                   keypressCallback, tabsOdd, nextPresses>>

\* mutant: the iteration without a frame goes on without exitFrame()
RunExitNoFrameSkipped ==
    /\ pc = "exitNoFrame"
    /\ pc' = "eventsNoFrame"
    /\ Quiet("skip")
    /\ UNCHANGED <<mgr, env, hist, isWindowCreated, filterIndex, key,
                   keypressCallback, tabsOdd, nextPresses>>

\* run: exitFrame() of an iteration without a frame (97)
RunExitNoFrame ==
    /\ pc = "exitNoFrame"
    /\ \E r \in Retrieved : ExitFrame(r)
    /\ pc' = "eventsNoFrame"
    /\ UNCHANGED <<isWindowCreated, filterIndex, key,
                   keypressCallback, tabsOdd, nextPresses>>

\* mutant: the iteration without a frame leaves the loop instead of continuing
RunEventsNoFrameBreak ==
    /\ pc = "eventsNoFrame"
    /\ \E code \in KeyCodes : ProcessEvents(code)
    /\ pc' = "done"

\* run: processEvents() of an iteration without a frame, and continue (98-99)
RunEventsNoFrame ==
    /\ pc = "eventsNoFrame"
    /\ \E code \in KeyCodes : ProcessEvents(code)
    /\ pc' = "test"

\* run: the selected filter applied to the frame in place (103-126)
RunFilter ==
    /\ pc = "filter"
    /\ pc' = "exit"
    /\ op' = "filter"
    /\ arg' = <<>>
    /\ ret' = NoFrame
    /\ raised' = FALSE
    /\ ext' = FilterCalls(Entry(Filters[filterIndex + 1]))
    /\ frame' = ApplyFilter(filterIndex, frame)
    /\ UNCHANGED <<previewWindowManager, shouldMirrorPreview, channel, enteredFrame,
                   imageFilename, videoFilename, videoEncoding, videoWriter,
                   startTime, framesElapsed, fpsEstimate>>
    /\ UNCHANGED <<env, hist, isWindowCreated, filterIndex, key,
                   keypressCallback, tabsOdd, nextPresses>>

\* run: exitFrame() (133)
RunExitFrame ==
    /\ pc = "exit"
    /\ \E r \in Retrieved : ExitFrame(r)
    /\ pc' = "events"
    /\ UNCHANGED <<isWindowCreated, filterIndex, key,
                   keypressCallback, tabsOdd, nextPresses>>

\* run: processEvents() (136)
RunEvents ==
    /\ pc = "events"
    /\ \E code \in KeyCodes : ProcessEvents(code)
    /\ pc' = "test"

RunTick == Tick /\ UNCHANGED app

\* Cameo.__init__ (39-64): a preview window, mirrored
InitRun ==
    /\ InitManager
    /\ previewWindowManager = TRUE
    /\ shouldMirrorPreview = TRUE
    /\ capFps \in SomeRates

NextRun ==
    \/ RunCreateWindow
    \/ RunTest
    \/ RunEnterFrame
    \/ RunReadFrame
    \/ RunExitNoFrame
    \/ RunEventsNoFrame
    \/ RunFilter
    \/ RunExitFrame
    \/ RunEvents
    \/ RunTick

SpecRun == InitRun /\ [][NextRun]_vars

----------------------------------------------------------------------------
(* SpecEvents: a WindowManager alone, with or without a key callback *)
(* (managers.py 251-320)                                              *)

\* what cv2.waitKey(1) may return; -1: no key was pressed
WaitKeyCodes == -1..MaxKeyCode

\* the keypressCallback argument of WindowManager(...): None by default, or
\* a callable, which here does nothing but get called
Callbacks == {None, "callback"}

InitEvents ==
    /\ InitFields
    /\ arg = <<>>
    /\ previewWindowManager = FALSE
    /\ shouldMirrorPreview = FALSE
    /\ capFps = NoRate
    /\ keypressCallback \in Callbacks

\* createWindow() (286-291)
EventsCreateWindow ==
    /\ isWindowCreated' = TRUE
    /\ op' = "createWindow"
    /\ arg' = <<>>
    /\ ret' = NoFrame
    /\ raised' = FALSE
    /\ ext' = << <<"namedWindow">> >>
    /\ UNCHANGED <<mgr, env, hist, filterIndex, pc, key, keypressCallback,
                   tabsOdd, nextPresses>>

\* destroyWindow() (302-307)
EventsDestroyWindow ==
    /\ isWindowCreated' = FALSE
    /\ op' = "destroyWindow"
    /\ arg' = <<>>
    /\ ret' = NoFrame
    /\ raised' = FALSE
    /\ ext' = << <<"destroyWindow">> >>
    /\ UNCHANGED <<mgr, env, hist, filterIndex, pc, key, keypressCallback,
                   tabsOdd, nextPresses>>

\* processEvents() (309-320); `arg` records what cv2.waitKey(1) returned
\* and `ext` the calls of the callback
EventsProcessEvents ==
    /\ \E code \in WaitKeyCodes :
           /\ key' = code
           /\ arg' = <<code>>
           /\ ext' = KeypressCalls(keypressCallback, code)
    /\ op' = "processEvents"
    /\ ret' = NoFrame
    /\ raised' = FALSE
    /\ UNCHANGED <<mgr, env, hist, isWindowCreated, filterIndex, pc,
                   keypressCallback, tabsOdd, nextPresses>>

NextEvents ==
    \/ EventsCreateWindow
    \/ EventsDestroyWindow
    \/ EventsProcessEvents

SpecEvents == InitEvents /\ [][NextEvents]_vars

----------------------------------------------------------------------------
(* Curve filters (filters.py 116-321, utils.py 5-63) *)

\* a rational number n/d, d > 0
Rat(n, d) == <<n, d>>
SameRat(p, q) == p[1] * q[2] = q[1] * p[2]

\* a function of one number, or None.  A function is a chain of stages,
\* applied from the first on.  A stage is a step <<a, b, d>>, taking x to
\* (a*x + b)/d, or a curve <<points, seconds>> made by createCurveFunc.
NoFunc == [present |-> FALSE, steps |-> <<>>]
Fn(steps) == [present |-> TRUE, steps |-> steps]

\* F at the value of e, which is worked out first
Apply(F(_), e) == CHOOSE r \in {F(v) : v \in {e}} : TRUE

\* Whole numbers >= 0 of any size, for the exact value of a curve: a
\* sequence of digits in base 10000, the lowest first and the highest not 0;
\* zero has no digits.  An operation takes its numbers as one tuple p from
\* the set {<<a, b>>}, which works them out once, before the digits are
\* gone through.
RECURSIVE Digits(_)
Digits(n) == IF n = 0 THEN <<>> ELSE <<n % 10000>> \o Digits(n \div 10000)

\* digit i of a, 0 above its highest digit
Digit(a, i) == IF i <= Len(a) THEN a[i] ELSE 0

\* the digits r[1..n] without the zeros at the high end
Trim(r, n) ==
    CHOOSE t \in {SubSeq(s, 1, n - (CHOOSE k \in 0..n :
                                        /\ k = n \/ s[n - k] /= 0
                                        /\ \A j \in 0..(k - 1) : s[n - j] = 0)) :
                  s \in {SubSeq(r, 1, n)}} : TRUE

RECURSIVE Carry(_, _, _)
\* the carry into digit i of a + b: what digit i - 1 gives, or hands on
Carry(a, b, i) ==
    IF i = 1 THEN 0
    ELSE LET t == Digit(a, i - 1) + Digit(b, i - 1)
         IN  IF t = 9999 THEN Carry(a, b, i - 1)
             ELSE IF t > 9999 THEN 1 ELSE 0

\* a + b
BigPlus(a, b) ==
    CHOOSE r \in
        {IF p[1] = <<>> THEN p[2]
         ELSE IF p[2] = <<>> THEN p[1]
         ELSE Trim([i \in 1..(IF Len(p[1]) > Len(p[2]) THEN Len(p[1])
                                                       ELSE Len(p[2])) + 1 |->
                       (Digit(p[1], i) + Digit(p[2], i) + Carry(p[1], p[2], i))
                           % 10000],
                   (IF Len(p[1]) > Len(p[2]) THEN Len(p[1]) ELSE Len(p[2])) + 1) :
             p \in {<<a, b>>}} : TRUE

RECURSIVE Borrow(_, _, _)
\* the borrow from digit i of a - b: what digit i - 1 takes, or hands on
Borrow(a, b, i) ==
    IF i = 1 THEN 0
    ELSE LET t == Digit(a, i - 1) - Digit(b, i - 1)
         IN  IF t = 0 THEN Borrow(a, b, i - 1)
             ELSE IF t < 0 THEN 1 ELSE 0

\* a - b, for a >= b
BigMinus(a, b) ==
    CHOOSE r \in
        {Trim([i \in 1..Len(p[1]) |->
                  (p[1][i] - Digit(p[2], i) - Borrow(p[1], p[2], i) + 10000)
                      % 10000],
              Len(p[1])) :
             p \in {<<a, b>>}} : TRUE

\* -1, 0 or 1 as a is below, equal to or above b: the highest digit in
\* which they differ decides
BigCmp(a, b) ==
    CHOOSE r \in
        {IF p[1] = p[2] THEN 0
         ELSE IF Len(p[1]) /= Len(p[2])
              THEN (IF Len(p[1]) < Len(p[2]) THEN -1 ELSE 1)
              ELSE LET n == Len(p[1])
                       same == CHOOSE k \in 0..(n - 1) :
                                   /\ p[1][n - k] /= p[2][n - k]
                                   /\ \A j \in 0..(k - 1) : p[1][n - j] = p[2][n - j]
                   IN  IF p[1][n - same] < p[2][n - same] THEN -1 ELSE 1 :
             p \in {<<a, b>>}} : TRUE

\* a * m, for a digit m: the low parts of the products of the digits, plus
\* their high parts one place up
BigTimes(a, m) ==
    CHOOSE r \in
        {IF p[1] = <<>> \/ p[2] = 0 THEN <<>>
         ELSE BigPlus(Trim([i \in 1..Len(p[1]) |-> (p[1][i] * p[2]) % 10000],
                           Len(p[1])),
                      Trim([i \in 1..Len(p[1]) + 1 |->
                               IF i = 1 THEN 0
                               ELSE (p[1][i - 1] * p[2]) \div 10000],
                           Len(p[1]) + 1)) :
             p \in {<<a, m>>}} : TRUE

RECURSIVE Total(_, _, _)
\* f[lo] + ... + f[hi]
Total(f, lo, hi) ==
    IF lo > hi THEN 0
    ELSE IF lo = hi THEN f[lo]
    ELSE Total(f, lo, (lo + hi) \div 2) + Total(f, (lo + hi) \div 2 + 1, hi)

\* the low (part = 0) or the high (part = 1) parts of the products of the
\* digits of a and b that fall into place k, added up
Column(a, b, k, part) ==
    Total([i \in 1..Len(a) |->
              IF part = 0 THEN (a[i] * Digit(b, k + 1 - i)) % 10000
              ELSE (a[i] * Digit(b, k + 1 - i)) \div 10000],
          IF k > Len(b) THEN k + 1 - Len(b) ELSE 1,
          IF k < Len(a) THEN k ELSE Len(a))

\* the sum of the columns c = <<low, high>> of a product of n places, each
\* column split into its digits, in their places
Columns(c, n) ==
    BigPlus(BigPlus(Trim([k \in 1..n |-> c[1][k] % 10000], n),
                    Trim([k \in 1..n |->
                             IF k = 1 THEN 0 ELSE c[1][k - 1] \div 10000], n)),
            BigPlus(Trim([k \in 1..n |->
                             IF k = 1 THEN 0 ELSE c[2][k - 1] % 10000], n),
                    Trim([k \in 1..n |->
                             IF k <= 2 THEN 0 ELSE c[2][k - 2] \div 10000], n)))

\* a * b
BigMul(a, b) ==
    CHOOSE r \in
        {IF p[1] = <<>> \/ p[2] = <<>> THEN <<>>
         ELSE CHOOSE t \in
                  {Columns(c, Len(p[1]) + Len(p[2])) :
                       c \in {<<SubSeq([k \in 1..Len(p[1]) + Len(p[2]) |->
                                           Column(p[1], p[2], k, 0)],
                                       1, Len(p[1]) + Len(p[2])),
                                SubSeq([k \in 1..Len(p[1]) + Len(p[2]) |->
                                           Column(p[1], p[2], k, 1)],
                                       1, Len(p[1]) + Len(p[2]))>>}} : TRUE :
             p \in {<<a, b>>}} : TRUE

\* Whole numbers of either sign: <<pos, neg>> stands for pos - neg, and one
\* of the two is zero.
ZOf(n) == IF n >= 0 THEN <<Digits(n), <<>>>> ELSE <<<<>>, Digits(-n)>>
\* pos - neg, for numbers pos, neg >= 0
ZNorm(pos, neg) ==
    CHOOSE r \in
        {IF BigCmp(p[1], p[2]) >= 0 THEN <<BigMinus(p[1], p[2]), <<>>>>
         ELSE <<<<>>, BigMinus(p[2], p[1])>> :
             p \in {<<pos, neg>>}} : TRUE
ZSign(a) == BigCmp(a[1], a[2])
ZPlus(a, b) ==
    CHOOSE r \in
        {IF p[2] = ZOf(0) THEN p[1]
         ELSE IF p[1] = ZOf(0) THEN p[2]
         ELSE ZNorm(BigPlus(p[1][1], p[2][1]), BigPlus(p[1][2], p[2][2])) :
             p \in {<<a, b>>}} : TRUE
ZMinus(a, b) ==
    CHOOSE r \in
        {IF p[2] = ZOf(0) THEN p[1]
         ELSE IF p[1] = ZOf(0) THEN <<p[2][2], p[2][1]>>
         ELSE ZNorm(BigPlus(p[1][1], p[2][2]), BigPlus(p[1][2], p[2][1])) :
             p \in {<<a, b>>}} : TRUE
\* the product has the size of the two sizes multiplied, and is below 0
\* when just one of the two is
ZTimes(a, b) ==
    CHOOSE r \in
        {IF (p[1][2] = <<>>) = (p[2][2] = <<>>)
         THEN <<BigMul(BigPlus(p[1][1], p[1][2]), BigPlus(p[2][1], p[2][2])), <<>>>>
         ELSE <<<<>>, BigMul(BigPlus(p[1][1], p[1][2]), BigPlus(p[2][1], p[2][2]))>> :
             p \in {<<a, b>>}} : TRUE

\* The cubic spline scipy builds for kind='cubic' (not-a-knot ends) through
\* the points ps, n = Len(ps) >= 4.  With H(k) the k-th gap and M[k] the
\* second derivative at point k, the inner points k = 2..n-1 give
\*   H(k-1) M[k-1] + 2 (H(k-1) + H(k)) M[k] + H(k) M[k+1]
\*       = 6 ((y[k+1] - y[k]) / H(k) - (y[k] - y[k-1]) / H(k-1)),
\* and the third derivative has no break at points 2 and n-1:
\*   H(2) M[1] - (H(1) + H(2)) M[2] + H(1) M[3] = 0, likewise at the end.
\* M[1] and M[n] are put into the rows of points 2 and n-1 and every row is
\* multiplied by H(k-1) H(k), which leaves whole numbers:
\* Sub(k) M[k-1] + Diag(k) M[k] + Sup(k) M[k+1] = Rho(k).
H(ps, k) == ps[k + 1][1] - ps[k][1]
Rho(ps, k) ==
    6 * (H(ps, k - 1) * (ps[k + 1][2] - ps[k][2])
           - H(ps, k) * (ps[k][2] - ps[k - 1][2]))
Sub(ps, k) ==
    IF k = 2 THEN 0
    ELSE IF k = Len(ps) - 1
         THEN H(ps, k) * (H(ps, k - 1) * H(ps, k - 1) - H(ps, k) * H(ps, k))
         ELSE H(ps, k - 1) * H(ps, k - 1) * H(ps, k)
Diag(ps, k) ==
    IF k = 2
    THEN H(ps, 1) * (H(ps, 1) + H(ps, 2)) * (H(ps, 1) + 2 * H(ps, 2))
    ELSE IF k = Len(ps) - 1
         THEN H(ps, k) * (H(ps, k - 1) + H(ps, k)) * (2 * H(ps, k - 1) + H(ps, k))
         ELSE 2 * H(ps, k - 1) * H(ps, k) * (H(ps, k - 1) + H(ps, k))
Sup(ps, k) ==
    IF k = Len(ps) - 1 THEN 0
    ELSE IF k = 2
         THEN H(ps, 1) * (H(ps, 2) * H(ps, 2) - H(ps, 1) * H(ps, 1))
         ELSE H(ps, k - 1) * H(ps, k) * H(ps, k)

RECURSIVE Theta(_, _)
\* the determinant of the rows and columns 2..k
Theta(ps, k) ==
    IF k = 1 THEN ZOf(1)
    ELSE IF k = 2 THEN ZOf(Diag(ps, 2))
    ELSE ZMinus(ZTimes(ZOf(Diag(ps, k)), Theta(ps, k - 1)),
                ZTimes(ZTimes(ZOf(Sub(ps, k)), ZOf(Sup(ps, k - 1))),
                       Theta(ps, k - 2)))

RECURSIVE Phi(_, _)
\* the determinant of the rows and columns k..n-1
Phi(ps, k) ==
    IF k = Len(ps) THEN ZOf(1)
    ELSE IF k = Len(ps) - 1 THEN ZOf(Diag(ps, k))
    ELSE ZMinus(ZTimes(ZOf(Diag(ps, k)), Phi(ps, k + 1)),
                ZTimes(ZTimes(ZOf(Sup(ps, k)), ZOf(Sub(ps, k + 1))),
                       Phi(ps, k + 2)))

RECURSIVE SupTimes(_, _, _, _)
\* acc times Sup(i) ... Sup(j - 1)
SupTimes(acc, ps, i, j) ==
    IF i >= j THEN acc
    ELSE SupTimes(ZTimes(acc, ZOf(Sup(ps, i))), ps, i + 1, j)

RECURSIVE SubTimes(_, _, _, _)
\* acc times Sub(j + 1) ... Sub(i)
SubTimes(acc, ps, j, i) ==
    IF j >= i THEN acc
    ELSE SubTimes(ZTimes(acc, ZOf(Sub(ps, j + 1))), ps, j + 1, i)

\* the determinants the inverse is made of, worked out once:
\* <<Theta(1..n-1), Phi(2..n)>>
Minors(ps) ==
    LET m == Len(ps) - 1
    IN  <<SubSeq([k \in 1..m |-> Theta(ps, k)], 1, m),
          SubSeq([k \in 1..m |-> Phi(ps, k + 1)], 1, m)>>

\* entry (i, j) of the inverse of the rows 2..n-1, times their determinant
Cofactor(ps, minors, i, j) ==
    LET sg == ZOf(IF (i + j) % 2 = 0 THEN 1 ELSE -1)
    IN  IF i <= j
        THEN SupTimes(ZTimes(sg, ZTimes(minors[1][i - 1], minors[2][j])),
                      ps, i, j)
        ELSE SubTimes(ZTimes(sg, ZTimes(minors[1][j - 1], minors[2][i])),
                      ps, j, i)

RECURSIVE Inner(_, _, _, _)
\* M[i] times the determinant, for an inner point i: the sum of
\* Cofactor(i, j) * Rho(j) over the rows j from `from` on
Inner(ps, minors, i, from) ==
    IF from > Len(ps) - 1 THEN ZOf(0)
    ELSE ZPlus(ZTimes(Cofactor(ps, minors, i, from), ZOf(Rho(ps, from))),
               Inner(ps, minors, i, from + 1))

\* the second derivatives M[1..n] of the spline and, last, the number they
\* are all to be divided by, which is above 0: the inner ones first, the
\* two at the ends from them
Seconds(ps) ==
    LET n == Len(ps)
        ends(minors, inner) ==
            LET d == ZTimes(minors[1][n - 1], ZOf(H(ps, 2) * H(ps, n - 2)))
                up(k) ==
                    IF k = 1
                    THEN ZTimes(ZMinus(ZTimes(ZOf(H(ps, 1) + H(ps, 2)), inner[1]),
                                       ZTimes(ZOf(H(ps, 1)), inner[2])),
                                ZOf(H(ps, n - 2)))
                    ELSE IF k = n
                    THEN ZTimes(ZMinus(ZTimes(ZOf(H(ps, n - 1) + H(ps, n - 2)),
                                              inner[n - 2]),
                                       ZTimes(ZOf(H(ps, n - 1)), inner[n - 3])),
                                ZOf(H(ps, 2)))
                    ELSE ZTimes(inner[k - 1], ZOf(H(ps, 2) * H(ps, n - 2)))
                flip(z) == IF ZSign(d) < 0 THEN <<z[2], z[1]>> ELSE z
            IN  SubSeq([k \in 1..n + 1 |->
                           IF k = n + 1 THEN flip(d) ELSE flip(up(k))], 1, n + 1)
    IN  Apply(LAMBDA minors :
                  Apply(LAMBDA inner : ends(minors, inner),
                        SubSeq([i \in 1..n - 2 |-> Inner(ps, minors, i + 1, 2)],
                               1, n - 2)),
              Minors(ps))

\* a value of a curve: <<pos, neg, den>> stands for (pos - neg) / den
Big(x) == <<ZOf(x[1])[1], ZOf(x[1])[2], Digits(x[2])>>

RECURSIVE Segment(_, _, _)
\* the first of the two neighbouring points, from k on, between which the
\* interpolation works at v: those around v, or the first or the last two
\* when v lies outside the points
Segment(ps, v, k) ==
    IF k + 1 = Len(ps)
         \/ ZSign(ZMinus(<<v[1], v[2]>>,
                         ZTimes(ZOf(ps[k + 1][1]), <<v[3], <<>>>>))) <= 0
    THEN k
    ELSE Segment(ps, v, k + 1)

\* the value of the spline piece between the points k and k + 1, from the
\* distances of v to the two points (each times the denominator q of v):
\*   (M[k] toNext^3 + M[k+1] fromLast^3) / (6 h)
\*     + (y[k] / h - M[k] h / 6) toNext + (y[k+1] / h - M[k+1] h / 6) fromLast
Cubic(ps, seconds, k, q, toNext, fromLast) ==
    LET h == ZOf(H(ps, k))
        d == seconds[Len(ps) + 1]
        straight(y, m) ==
            ZMinus(ZTimes(ZOf(6 * y), d), ZTimes(m, ZTimes(h, h)))
    IN  Apply(LAMBDA w :
                  Apply(LAMBDA t :
                            Apply(LAMBDA top : <<top[1], top[2], t[5]>>,
                                  ZPlus(ZPlus(t[1], t[2]), ZPlus(t[3], t[4]))),
                        <<ZTimes(seconds[k], ZTimes(toNext, w[1])),
                          ZTimes(seconds[k + 1], ZTimes(fromLast, w[2])),
                          ZTimes(w[4], ZTimes(toNext, w[3])),
                          ZTimes(w[5], ZTimes(fromLast, w[3])),
                          ZTimes(ZTimes(ZOf(6), h), ZTimes(d, ZTimes(q, w[3])))[1]>>),
              <<ZTimes(toNext, toNext), ZTimes(fromLast, fromLast), ZTimes(q, q),
                straight(ps[k][2], seconds[k]),
                straight(ps[k + 1][2], seconds[k + 1])>>)

\* interp1d(xs, ys, kind, fill_value="extrapolate") at v (utils.py 30-32):
\* the straight line between the two neighbours when there are no second
\* derivatives (kind='linear'), else the cubic of the spline between them
Interp(ps, seconds, v) ==
    LET k == Segment(ps, v, 1)
        q == <<v[3], <<>>>>
    IN  Apply(LAMBDA w :
                  IF seconds = <<>>
                  THEN LET top == ZPlus(ZTimes(ZOf(ps[k][2]), w[1]),
                                        ZTimes(ZOf(ps[k + 1][2]), w[2]))
                       IN  <<top[1], top[2], ZTimes(ZOf(H(ps, k)), q)[1]>>
                  ELSE Cubic(ps, seconds, k, q, w[1], w[2]),
              <<ZMinus(ZTimes(ZOf(ps[k + 1][1]), q), <<v[1], v[2]>>),
                ZMinus(<<v[1], v[2]>>, ZTimes(ZOf(ps[k][1]), q))>>)

\* one stage at x, x a fraction <<n, d>> or a curve value <<pos, neg, den>>:
\* a step keeps the form of x, a curve always gives a curve value
Stage(s, x) ==
    IF Len(s) = 3
    THEN IF Len(x) = 2
         THEN Rat(s[1] * x[1] + s[2] * x[2], x[2] * s[3])
         ELSE LET top == ZPlus(ZTimes(ZOf(s[1]), <<x[1], x[2]>>),
                               ZTimes(ZOf(s[2]), <<x[3], <<>>>>))
              IN  <<top[1], top[2], BigMul(x[3], Digits(s[3]))>>
    ELSE Interp(s[1], s[2], IF Len(x) = 2 THEN Big(x) ELSE x)

RECURSIVE CallSteps(_, _)
CallSteps(steps, x) ==
    IF steps = <<>> THEN x
    ELSE Apply(LAMBDA v : CallSteps(Tail(steps), v), Stage(steps[1], x))

\* f(x) for a function f that is present
Call(f, x) == CallSteps(f.steps, x)

\* the `points` argument of createCurveFunc: None, or a list of (x, y)
NoPoints == [present |-> FALSE, list |-> <<>>]
Points(list) == [present |-> TRUE, list |-> list]

\* mutant: each control point is read as (y, x)
CreateCurveFuncTransposed(points) ==
    IF ~points.present \/ Len(points.list) < 2 THEN NoFunc
    ELSE LET ps == [k \in 1..Len(points.list) |->
                       <<points.list[k][2], points.list[k][1]>>]
         IN  Fn(<< <<ps, IF Len(ps) >= 4 THEN Seconds(ps) ELSE <<>> >> >>)

\* createCurveFunc(points) (utils.py 5-32): None for no list or fewer than 2
\* points, else the interpolation through the points, cubic from 4 points on
CreateCurveFunc(points) ==
    IF ~points.present \/ Len(points.list) < 2 THEN NoFunc
    ELSE Fn(<< <<points.list,
                 IF Len(points.list) >= 4 THEN Seconds(points.list) ELSE <<>> >> >>)

\* mutant: the functions are composed in the other order
CreateCompositeFuncSwapped(func0, func1) ==
    IF ~func0.present THEN func1
    ELSE IF ~func1.present THEN func0
    ELSE Fn(func0.steps \o func1.steps)

\* createCompositeFunc (filters.py 192-208): lambda x: func0(func1(x))
CreateCompositeFunc(func0, func1) ==
    IF ~func0.present THEN func1
    ELSE IF ~func1.present THEN func0
    ELSE Fn(func1.steps \o func0.steps)

\* np.iinfo(np.uint8).max + 1
TableLength == 256

\* a lookup array is a sequence: entry i + 1 holds the value for input i
NoTable == <<>>

RECURSIVE Floor(_, _, _)
\* the whole part of the curve value v, known to lie in lo..hi
Floor(v, lo, hi) ==
    IF lo = hi THEN lo
    ELSE LET mid == (lo + hi + 1) \div 2
         IN IF BigCmp(BigPlus(v[2], BigTimes(v[3], mid)), v[1]) <= 0
            THEN Floor(v, mid, hi)
            ELSE Floor(v, lo, mid - 1)

RECURSIVE HalfSteps(_)
\* how many times half the float32 step just below the whole number n >= 1
\* goes into 1: 2^(24 - e) for 2^e < n <= 2^(e + 1)
HalfSteps(n) == IF n <= 1 THEN 2 ^ 25 ELSE HalfSteps((n + 1) \div 2) \div 2

\* the whole number the float32 array holds for the value v with whole part
\* `whole` (utils.py 54, 61): the store rounds v to the nearest float32, so a
\* v within half a step below whole + 1 becomes whole + 1
Float32(v, whole) ==
    LET n == whole + 1
        k == HalfSteps(n)
    IN  IF Len(v) = 3
        THEN IF BigCmp(BigTimes(BigTimes(BigPlus(v[2], BigTimes(v[3], n)), 4096),
                                k \div 4096),
                       BigPlus(v[3], BigTimes(BigTimes(v[1], 4096), k \div 4096)))
                  <= 0
             THEN n ELSE whole
        ELSE IF v[2] - (v[1] % v[2]) <= v[2] \div k THEN n ELSE whole

\* the value createLookupArray keeps for the result v: clamped to
\* 0..length-1 (utils.py 59-60), stored as a float32 (54, 61), its fraction
\* dropped by the conversion to an integer type (63).  The exact value
\* stands for the double the code computes: the two differ by far less than
\* the step of the float32.
Stored(v, length) ==
    IF Len(v) = 3
    THEN IF BigCmp(v[1], v[2]) < 0 THEN 0
         ELSE IF BigCmp(v[1], BigPlus(v[2], BigTimes(v[3], length - 1))) >= 0
              THEN length - 1
              ELSE Float32(v, Floor(v, 0, length - 1))
    ELSE IF v[1] < 0 THEN 0
    ELSE IF v[1] \div v[2] >= length - 1 THEN length - 1
    ELSE Float32(v, v[1] \div v[2])

\* astype(np.uint8) (utils.py 63) of a whole number n >= 0.  A number above
\* 255 does not fit the 8 bits and the conversion of such a float is left to
\* the build: it keeps the low 8 bits or it saturates.
Casts == {"wrap", "saturate"}
AsUint8(n, cast) ==
    IF n <= 255 THEN n
    ELSE IF cast = "wrap" THEN n % 256
    ELSE 255

\* createLookupArray(func, length) (utils.py 35-63) on a build that converts
\* as `cast` says
CreateLookupArrayOn(func, length, cast) ==
    IF ~func.present THEN NoTable
    ELSE [i \in 1..length |->
             AsUint8(Stored(Call(func, Rat(i - 1, 1)), length), cast)]

\* createLookupArray(func, length) for a length of at most 256, where every
\* clamped value fits the 8 bits whatever the build
CreateLookupArray(func, length) == CreateLookupArrayOn(func, length, "wrap")

\* BGRFuncFilter.__init__ (filters.py 147-169): the three lookup arrays
BGRFuncFilter(vFunc, bFunc, gFunc, rFunc) ==
    [bLookupArray |-> CreateLookupArray(CreateCompositeFunc(bFunc, vFunc), TableLength),
     gLookupArray |-> CreateLookupArray(CreateCompositeFunc(gFunc, vFunc), TableLength),
     rLookupArray |-> CreateLookupArray(CreateCompositeFunc(rFunc, vFunc), TableLength)]

\* VFuncFilter.__init__ (filters.py 86-97): the lookup array of the value
VFuncFilter(vFunc) ==
    [vLookupArray |-> CreateLookupArray(vFunc, TableLength)]

\* VCurveFilter.__init__ (filters.py 124-134)
VCurveFilter(vPoints) == VFuncFilter(CreateCurveFunc(vPoints))

\* BGRCurveFilter.__init__ (filters.py 224-234): the filter of the four
\* curves through the points given
BGRCurveFilter(vPoints, bPoints, gPoints, rPoints) ==
    BGRFuncFilter(CreateCurveFunc(vPoints), CreateCurveFunc(bPoints),
                  CreateCurveFunc(gPoints), CreateCurveFunc(rPoints))

\* the functions handed in: none, x+1, 2x, x/2, 255-x
Funcs == {NoFunc, Fn(<< <<1, 1, 1>> >>), Fn(<< <<2, 0, 1>> >>),
          Fn(<< <<1, 0, 2>> >>), Fn(<< <<-1, 255, 1>> >>)}

\* curves handed in as functions: the line of filters.py 318 and the value
\* curve of filters.py 253
CurveFuncs ==
    {CreateCurveFunc(Points(<< <<0, 20>>, <<255, 235>> >>)),
     CreateCurveFunc(Points(<< <<0, 0>>, <<23, 20>>, <<157, 173>>, <<255, 255>> >>))}

\* arguments of createCompositeFunc, and of BGRFuncFilter (v, b, g, r)
CompositeArgs ==
    {<<f, g>> : f \in Funcs \cup CurveFuncs, g \in Funcs \cup CurveFuncs}
FilterArgs == {<<v, b, g, r>> : v \in Funcs, b \in Funcs, g \in Funcs, r \in Funcs}

\* functions whose values lie just under a whole number: x - 1/1000000 and
\* the constants 63.999999 and 0.999999999
NearWhole ==
    {Fn(<< <<1000000, -1, 1000000>> >>), Fn(<< <<0, 63999999, 1000000>> >>),
     Fn(<< <<0, 999999999, 1000000000>> >>)}

\* arguments of createLookupArray (func, length), with the build's conversion
Lengths == {1, 2, TableLength, MaxLength}
LookupArrayArgs ==
    {<<f, n, c>> : f \in Funcs \cup NearWhole, n \in Lengths, c \in Casts}

\* control points handed to VCurveFilter: None, too few points, two and
\* three points, and curves of four and of five points of filters.py
\* (253-256, 275, 296-298, 320)
CurvePoints ==
    {NoPoints, Points(<<>>), Points(<< <<0, 0>> >>),
     Points(<< <<0, 20>>, <<255, 235>> >>),
     Points(<< <<0, 0>>, <<128, 140>>, <<255, 255>> >>),
     Points(<< <<0, 0>>, <<23, 20>>, <<157, 173>>, <<255, 255>> >>),
     Points(<< <<0, 0>>, <<41, 46>>, <<231, 228>>, <<255, 255>> >>),
     Points(<< <<0, 0>>, <<35, 25>>, <<205, 227>>, <<255, 255>> >>),
     Points(<< <<0, 0>>, <<128, 118>>, <<221, 215>>, <<255, 255>> >>),
     Points(<< <<0, 0>>, <<56, 22>>, <<211, 255>>, <<255, 255>> >>),
     Points(<< <<0, 0>>, <<25, 21>>, <<122, 153>>, <<165, 206>>, <<255, 255>> >>),
     Points(<< <<0, 0>>, <<25, 21>>, <<95, 102>>, <<181, 208>>, <<255, 255>> >>)}
CurveArgs == {<<ps>> : ps \in CurvePoints}

\* the arguments BGRPortraCurveFilter, BGRProviaCurveFilter,
\* BGRVelviaCurveFilter and BGRCrossProcessCurveFilter hand to
\* BGRCurveFilter (filters.py 253-257, 275-278, 296-300, 318-321)
FilmArgs ==
    {<<Points(<< <<0, 0>>, <<23, 20>>, <<157, 173>>, <<255, 255>> >>),
       Points(<< <<0, 0>>, <<41, 46>>, <<231, 228>>, <<255, 255>> >>),
       Points(<< <<0, 0>>, <<52, 47>>, <<189, 196>>, <<255, 255>> >>),
       Points(<< <<0, 0>>, <<69, 69>>, <<213, 218>>, <<255, 255>> >>), "uint8">>,
     <<NoPoints,
       Points(<< <<0, 0>>, <<35, 25>>, <<205, 227>>, <<255, 255>> >>),
       Points(<< <<0, 0>>, <<27, 21>>, <<196, 207>>, <<255, 255>> >>),
       Points(<< <<0, 0>>, <<59, 54>>, <<202, 210>>, <<255, 255>> >>), "uint8">>,
     <<Points(<< <<0, 0>>, <<128, 118>>, <<221, 215>>, <<255, 255>> >>),
       Points(<< <<0, 0>>, <<25, 21>>, <<122, 153>>, <<165, 206>>, <<255, 255>> >>),
       Points(<< <<0, 0>>, <<25, 21>>, <<95, 102>>, <<181, 208>>, <<255, 255>> >>),
       Points(<< <<0, 0>>, <<41, 28>>, <<183, 209>>, <<255, 255>> >>), "uint8">>,
     <<NoPoints,
       Points(<< <<0, 20>>, <<255, 235>> >>),
       Points(<< <<0, 0>>, <<56, 39>>, <<208, 226>>, <<255, 255>> >>),
       Points(<< <<0, 0>>, <<56, 22>>, <<211, 255>>, <<255, 255>> >>), "uint8">>}

InitCurves ==
    /\ InitState
    /\ previewWindowManager = FALSE
    /\ shouldMirrorPreview = FALSE
    /\ capFps = NoRate
    /\ arg \in CompositeArgs \cup FilterArgs \cup LookupArrayArgs \cup CurveArgs
                 \cup FilmArgs

\* createLookupArray(func, length) is called with the arguments drawn
CallCreateLookupArray ==
    /\ op = "init"
    /\ Len(arg) = 3
    /\ op' = "createLookupArray"
    /\ ret' = CreateLookupArrayOn(arg[1], arg[2], arg[3])
    /\ UNCHANGED <<mgr, env, app, hist, arg, ext, raised>>

\* createCompositeFunc(func0, func1) is called with the arguments drawn
CallCreateCompositeFunc ==
    /\ op = "init"
    /\ Len(arg) = 2
    /\ op' = "createCompositeFunc"
    /\ ret' = CreateCompositeFunc(arg[1], arg[2])
    /\ UNCHANGED <<mgr, env, app, hist, arg, ext, raised>>

\* BGRFuncFilter(vFunc, bFunc, gFunc, rFunc) is constructed
NewBGRFuncFilter ==
    /\ op = "init"
    /\ Len(arg) = 4
    /\ op' = "BGRFuncFilter"
    /\ ret' = BGRFuncFilter(arg[1], arg[2], arg[3], arg[4])
    /\ UNCHANGED <<mgr, env, app, hist, arg, ext, raised>>

\* VCurveFilter(vPoints) is constructed
NewVCurveFilter ==
    /\ op = "init"
    /\ Len(arg) = 1
    /\ op' = "VCurveFilter"
    /\ ret' = VCurveFilter(arg[1])
    /\ UNCHANGED <<mgr, env, app, hist, arg, ext, raised>>

\* BGRCurveFilter(vPoints, bPoints, gPoints, rPoints, dtype) is constructed
NewBGRCurveFilter ==
    /\ op = "init"
    /\ Len(arg) = 5
    /\ op' = "BGRCurveFilter"
    /\ ret' = BGRCurveFilter(arg[1], arg[2], arg[3], arg[4])
    /\ UNCHANGED <<mgr, env, app, hist, arg, ext, raised>>

NextCurves ==
    \/ CallCreateCompositeFunc
    \/ NewBGRCurveFilter
    \/ NewBGRFuncFilter
    \/ CallCreateLookupArray
    \/ NewVCurveFilter

SpecCurves == InitCurves /\ [][NextCurves]_vars

----------------------------------------------------------------------------
(* Convolution filters (filters.py 361-440) *)

\* largest height and width of the images filtered
MaxSide == 3

\* a kernel: rows of integer weights over a common denominator
Kernel(rows, den) == [rows |-> rows, den |-> den]

\* SharpenFilter (401)
SharpenKernel ==
    Kernel(<< <<-1, -1, -1>>, <<-1, 9, -1>>, <<-1, -1, -1>> >>, 1)

\* FindEdgesFilter (414)
FindEdgesKernel ==
    Kernel(<< <<-1, -1, -1>>, <<-1, 8, -1>>, <<-1, -1, -1>> >>, 1)

\* BlurFilter (427): np.ones((5, 5)) / 25.0
BlurKernel ==
    Kernel([i \in 1..5 |-> [j \in 1..5 |-> 1]], 25)

\* mutant: the emboss kernel with a centre weight of 0
EmbossKernelFlat ==
    Kernel(<< <<-2, -1, 0>>, <<-1, 0, 1>>, <<0, 1, 2>> >>, 1)

\* EmbossFilter (439)
EmbossKernel ==
    Kernel(<< <<-2, -1, 0>>, <<-1, 1, 1>>, <<0, 1, 2>> >>, 1)

\* the kernel each filter class hands to VConvolutionFilter.__init__
KernelOf(name) ==
    CASE name = "sharpen"   -> SharpenKernel
      [] name = "findEdges" -> FindEdgesKernel
      [] name = "blur"      -> BlurKernel
      [] name = "emboss"    -> EmbossKernel

ConvolutionFilters == {"sharpen", "findEdges", "blur", "emboss"}

\* cv2's default border (BORDER_REFLECT_101): the index in 0..len-1 that
\* stands for position p
RECURSIVE BorderInterpolate(_, _)
BorderInterpolate(p, len) ==
    IF len = 1 THEN 0
    ELSE IF p < 0 THEN BorderInterpolate(-p, len)
    ELSE IF p >= len THEN BorderInterpolate(2 * (len - 1) - p, len)
    ELSE p

\* n/d rounded to the nearest integer, halves to the even one (d > 0)
Round(n, d) ==
    LET q == n \div d
        r == n - q * d
    IN  IF 2 * r < d THEN q
        ELSE IF 2 * r > d THEN q + 1
        ELSE IF q % 2 = 0 THEN q ELSE q + 1

\* the result cast to uint8: cut to 0..255
Saturate(v) == IF v < 0 THEN 0 ELSE IF v > 255 THEN 255 ELSE v

RECURSIVE SumOver(_, _)
SumOver(f, S) ==
    IF S = {} THEN 0
    ELSE LET x == CHOOSE x \in S : TRUE IN f[x] + SumOver(f, S \ {x})

\* cv2.filter2D(src, -1, kernel, dst): each channel of each pixel becomes the
\* weighted sum of its neighbourhood, the kernel centred on the pixel
Filter2D(src, kernel) ==
    LET h == Len(src)
        w == Len(src[1])
        kh == Len(kernel.rows)
        kw == Len(kernel.rows[1])
        At(y, x, c) ==
            LET cells == (1..kh) \X (1..kw)
                term == [ij \in cells |->
                            kernel.rows[ij[1]][ij[2]] *
                            src[BorderInterpolate(y - 1 + ij[1] - 1 - (kh \div 2), h) + 1]
                               [BorderInterpolate(x - 1 + ij[2] - 1 - (kw \div 2), w) + 1][c]]
            IN  Saturate(Round(SumOver(term, cells), kernel.den))
    IN  [y \in 1..h |-> [x \in 1..w |-> [c \in 1..3 |-> At(y, x, c)]]]

\* VConvolutionFilter.apply(src, dst) of the filter called `name` (380-389)
ConvolutionApply(name, src) == Filter2D(src, KernelOf(name))

\* an image of one colour, and one whose top left pixel has another colour
Uniform(h, w, c) == [y \in 1..h |-> [x \in 1..w |-> c]]
Spot(h, w, c, d) ==
    [y \in 1..h |-> [x \in 1..w |-> IF y = 1 /\ x = 1 THEN d ELSE c]]

\* BGR colours: mid-grey, black, white and a mixed one
Colours == {<<128, 128, 128>>, <<0, 0, 0>>, <<255, 255, 255>>, <<10, 200, 90>>}

Images ==
    {Uniform(h, w, c) : h \in 1..MaxSide, w \in 1..MaxSide, c \in Colours}
    \cup {Spot(h, w, <<128, 128, 128>>, d) :
              h \in 1..MaxSide, w \in 1..MaxSide, d \in Colours}

InitConvolution ==
    /\ InitState
    /\ previewWindowManager = FALSE
    /\ shouldMirrorPreview = FALSE
    /\ capFps = NoRate
    /\ arg \in ConvolutionFilters \X Images

\* filter.apply(image, image) for the filter and the image drawn
CallConvolutionApply ==
    /\ op = "init"
    /\ op' = "apply"
    /\ ret' = ConvolutionApply(arg[1], arg[2])
    /\ UNCHANGED <<mgr, env, app, hist, arg, ext, raised>>

NextConvolution == CallConvolutionApply

SpecConvolution == InitConvolution /\ [][NextConvolution]_vars

----------------------------------------------------------------------------
(* strokeEdges (filters.py 325-357) *)

\* position p brought into 0..len-1 (cv2's BORDER_REPLICATE, used by medianBlur)
Replicate(p, len) == IF p < 0 THEN 0 ELSE IF p >= len THEN len - 1 ELSE p

\* the median of the values f takes on the cells S (an odd number of cells)
Median(f, S) ==
    LET half == Cardinality(S) \div 2
    IN  CHOOSE v \in {f[x] : x \in S} :
            /\ Cardinality({x \in S : f[x] < v}) <= half
            /\ Cardinality({x \in S : f[x] <= v}) > half

\* cv2.medianBlur(src, ksize): per channel, the median of the ksize x ksize
\* neighbourhood
MedianBlur(src, ksize) ==
    LET h == Len(src)
        w == Len(src[1])
        r == ksize \div 2
        cells == (0..ksize - 1) \X (0..ksize - 1)
        At(y, x, c) ==
            Median([ij \in cells |->
                       src[Replicate(y - 1 + ij[1] - r, h) + 1]
                          [Replicate(x - 1 + ij[2] - r, w) + 1][c]], cells)
    IN  [y \in 1..h |-> [x \in 1..w |-> [c \in 1..3 |-> At(y, x, c)]]]

\* cv2.cvtColor(img, COLOR_BGR2GRAY) works in fixed point: the weights 0.114,
\* 0.587, 0.299 scaled by 2^shift and rounded, the sum rounded half up. The
\* library has used two scalings, 14 bits and 15 bits; which one runs is the
\* build's choice.
GrayShifts == {14, 15}
GrayWeights(shift) ==
    IF shift = 14 THEN <<1868, 9617, 4899>> ELSE <<3735, 19235, 9798>>
Gray(img, shift) ==
    LET w == GrayWeights(shift) IN
    [y \in 1..Len(img) |-> [x \in 1..Len(img[y]) |->
        (w[1] * img[y][x][1] + w[2] * img[y][x][2] + w[3] * img[y][x][3]
             + 2 ^ (shift - 1)) \div 2 ^ shift]]

\* mutant: a Laplacian kernel whose weights do not cancel
LaplacianKernelOff ==
    Kernel(<< <<2, 4, 4, 4, 2>>, <<4, 0, -8, 0, 4>>, <<4, -8, -23, -8, 4>>,
              <<4, 0, -8, 0, 4>>, <<2, 4, 4, 4, 2>> >>, 1)

\* the kernel of cv2.Laplacian for ksize = 5: the second derivatives in x and
\* in y of the 5-tap Sobel kernels, added
LaplacianKernel ==
    Kernel(<< <<2, 4, 4, 4, 2>>, <<4, 0, -8, 0, 4>>, <<4, -8, -24, -8, 4>>,
              <<4, 0, -8, 0, 4>>, <<2, 4, 4, 4, 2>> >>, 1)

\* cv2.Laplacian(gray, cv2.CV_8U, gray, ksize=5) on a one-channel image
Laplacian(gray) ==
    LET wide == [y \in 1..Len(gray) |-> [x \in 1..Len(gray[y]) |->
                    <<gray[y][x], gray[y][x], gray[y][x]>>]]
        out == Filter2D(wide, LaplacianKernel)
    IN  [y \in 1..Len(gray) |-> [x \in 1..Len(gray[y]) |-> out[y][x][1]]]

\* the pairs (c, g) for which the double product c * ((1.0/255) * (255 - g))
\* falls just below the whole number c * (255 - g) / 255
FloatShort ==
    {<<255, 11>>, <<255, 27>>, <<255, 43>>, <<255, 59>>, <<153, 60>>, <<75, 68>>,
     <<150, 68>>, <<165, 68>>, <<17, 75>>, <<34, 75>>, <<68, 75>>, <<85, 75>>,
     <<119, 75>>, <<136, 75>>, <<153, 75>>, <<170, 75>>, <<221, 75>>,
     <<238, 75>>, <<255, 75>>, <<85, 84>>, <<170, 84>>, <<255, 91>>,
     <<51, 100>>, <<102, 100>>, <<153, 100>>, <<204, 100>>, <<255, 107>>,
     <<85, 108>>, <<170, 108>>, <<85, 123>>, <<170, 123>>, <<255, 123>>,
     <<255, 133>>, <<255, 141>>, <<255, 149>>, <<255, 157>>, <<17, 165>>,
     <<34, 165>>, <<68, 165>>, <<85, 165>>, <<119, 165>>, <<136, 165>>,
     <<153, 165>>, <<170, 165>>, <<221, 165>>, <<238, 165>>, <<255, 165>>,
     <<255, 173>>, <<255, 181>>, <<85, 189>>, <<170, 189>>, <<255, 189>>,
     <<255, 194>>, <<255, 198>>, <<255, 202>>, <<255, 206>>, <<17, 210>>,
     <<34, 210>>, <<68, 210>>, <<85, 210>>, <<119, 210>>, <<136, 210>>,
     <<153, 210>>, <<170, 210>>, <<221, 210>>, <<238, 210>>, <<255, 210>>,
     <<255, 214>>, <<255, 218>>, <<85, 222>>, <<170, 222>>, <<255, 222>>}

\* ch[:] = ch * normalizedInverseAlpha for one element (350, 355): the double
\* product, its fraction dropped by the store into the uint8 channel
Darken(c, g) ==
    IF <<c, g>> \in FloatShort
    THEN (c * (255 - g)) \div 255 - 1
    ELSE (c * (255 - g)) \div 255

\* an array as cv2 returns it: every element computed, once
Plane(img) ==
    SubSeq([y \in 1..Len(img) |-> SubSeq(img[y], 1, Len(img[y]))], 1, Len(img))
Colour(img) ==
    Plane([y \in 1..Len(img) |-> [x \in 1..Len(img[y]) |->
              <<img[y][x][1], img[y][x][2], img[y][x][3]>>]])

\* strokeEdges(src, dst) with the default kernel sizes: the cv2 calls it makes
\* with their results; the last one, merge, fills dst
StrokeEdgesCalls(src, shift) ==
    LET blurred == Colour(MedianBlur(src, 7))
        gray == Plane(Gray(blurred, shift))
        edges == Plane(Laplacian(gray))
        out == [y \in 1..Len(src) |-> [x \in 1..Len(src[y]) |->
                   [c \in 1..3 |-> Darken(src[y][x][c], edges[y][x])]]]
    IN  << <<"medianBlur", blurred>>, <<"cvtColor", gray>>,
           <<"Laplacian", edges>>, <<"merge", out>> >>

\* buffers: 1 holds the image, 2 a black image of the same size
Buffers(img) == <<img, Uniform(Len(img), Len(img[1]), <<0, 0, 0>>)>>

\* rows of three colours: the weighted sum of the first colour falls on a
\* half, just under a half, and where the two scalings differ
Row == << << <<0, 1, 187>>, <<30, 30, 30>>, <<58, 58, 58>> >>,
          << <<0, 2, 175>>, <<30, 30, 30>>, <<58, 58, 58>> >>,
          << <<0, 15, 106>>, <<30, 30, 30>>, <<58, 58, 58>> >> >>

StrokeImages == Images \cup {<<Row[1]>>, <<Row[2]>>, <<Row[3]>>, Row}

\* (src, dst, buffers, shift): the source is buffer 1, the destination either
\* buffer; shift is the scaling cvtColor works in
StrokeArgs ==
    {<<1, d, Buffers(img), s>> : d \in {1, 2}, img \in StrokeImages,
                                 s \in GrayShifts}

InitStroke ==
    /\ InitState
    /\ previewWindowManager = FALSE
    /\ shouldMirrorPreview = FALSE
    /\ capFps = NoRate
    /\ arg \in StrokeArgs

\* filters.strokeEdges(src, dst) on the buffers drawn; ret: the buffers after it
CallStrokeEdges ==
    LET calls == StrokeEdgesCalls(arg[3][arg[1]], arg[4]) IN
    /\ op = "init"
    /\ op' = "strokeEdges"
    /\ ext' = calls
    /\ ret' = [arg[3] EXCEPT ![arg[2]] = calls[4][2]]
    /\ UNCHANGED <<mgr, env, app, hist, arg, raised>>

NextStroke == CallStrokeEdges

SpecStroke == InitStroke /\ [][NextStroke]_vars

----------------------------------------------------------------------------
(* applyLookupArray (utils.py 66-84) *)

\* most elements of the arrays mapped
MaxElems == 3

\* mutant: the table is indexed by the destination's elements
ApplyLookupArrayOfDst(lookupArray, src, dst, bufs) ==
    IF lookupArray = NoTable THEN bufs
    ELSE [bufs EXCEPT ![dst] =
             [i \in 1..Len(bufs[dst]) |-> lookupArray[bufs[dst][i] + 1]]]

\* applyLookupArray(lookupArray, src, dst): the buffers afterwards.  src and
\* dst name buffers of bufs; lookupArray[src] is a new array, which is then
\* copied into dst (84).
ApplyLookupArray(lookupArray, src, dst, bufs) ==
    IF lookupArray = NoTable THEN bufs
    ELSE [bufs EXCEPT ![dst] =
             [i \in 1..Len(bufs[src]) |-> lookupArray[bufs[src][i] + 1]]]

\* element values, and the flat arrays of them
Elems == {0, 3, 128, 255}
Arrays == UNION {[1..n -> Elems] : n \in 1..MaxElems}

\* the tables: none, and those of x+1, 2x, x/2 and 255-x
Tables == {CreateLookupArray(f, TableLength) : f \in Funcs}

\* (table, src, dst, buffers): buffer 1 is the source, buffer 2 holds sevens
LookupArgs ==
    {<<t, 1, d, <<a, [i \in 1..Len(a) |-> 7]>> >> :
        t \in Tables, d \in {1, 2}, a \in Arrays}

InitLookup ==
    /\ InitState
    /\ previewWindowManager = FALSE
    /\ shouldMirrorPreview = FALSE
    /\ capFps = NoRate
    /\ arg \in LookupArgs

\* utils.applyLookupArray on the arguments drawn; ret: the buffers after it
CallApplyLookupArray ==
    /\ op = "init"
    /\ op' = "applyLookupArray"
    /\ ret' = ApplyLookupArray(arg[1], arg[2], arg[3], arg[4])
    /\ UNCHANGED <<mgr, env, app, hist, arg, ext, raised>>

NextLookup == CallApplyLookupArray

SpecLookup == InitLookup /\ [][NextLookup]_vars

----------------------------------------------------------------------------
(* Claims *)

E == "enterFrame"
X == "exitFrame"
SinkCalls(s) == {i \in DOMAIN s : s[i][1] \in {"show", "imwrite", "VideoWriter", "write", "release"}}

\* C1 (as claimed): an enterFrame call that follows an enterFrame call with no
\* exitFrame call between them raises AssertionError, whatever grab returned
\* to the first one.
C1_SecondEnterRaises ==
    (op = E /\ lifecycle = <<E, E>>) => raised

\* C2: in Cameo.run the enterFrame and exitFrame calls alternate strictly,
\* beginning with enterFrame, and enterFrame's assertion never fails: run is
\* never ended by it, and the flag is clear whenever enterFrame is about to
\* be called.
C2_EnterExitAlternate ==
    /\ ~raised
    /\ pc /= "crashed"
    /\ lifecycle \in {<<>>, <<E>>, <<E, X>>, <<X, E>>}
    /\ (pc = "enter" => ~enteredFrame /\ lifecycle \in {<<>>, <<E, X>>})
    /\ (pc \in {"exitNoFrame", "exit"} => lifecycle \in {<<E>>, <<X, E>>})

\* C2 witness: a later iteration has entered its frame after an iteration
\* whose capture failed and in which a key was handled.
C2_Witness ==
    /\ pc = "read"
    /\ op = E
    /\ lifecycle = <<X, E>>
    /\ framesElapsed = 0
    /\ key /= -1
    /\ ~raised

\* C3 (as claimed): an iteration of run whose read of `frame` returned None
\* shows nothing, writes no screenshot and no video frame and counts no
\* frame: its exitFrame ends without a frame and calls no sink.
C3_NoFrameIterationIsSilent ==
    (pc = "eventsNoFrame" /\ op = X) => (ret = NoFrame /\ SinkCalls(ext) = {})

\* C4: between two stopWritingVideo calls at most one writer is constructed;
\* a writer is released by stopWritingVideo only, exactly once when the
\* session constructed one and never otherwise, and none stays open after it.
C4_WriterOncePerSession ==
    [][ /\ built' <= 1
        /\ Count(ext', "VideoWriter") <= 1
        /\ Count(ext', "release") = (IF op' = "stopWritingVideo" THEN built ELSE 0)
        /\ (op' = "stopWritingVideo" =>
                /\ \A i \in Calls(ext', "release") : ext'[i][2] = videoWriter
                /\ openWriters' = {})
        /\ Cardinality(openWriters') <= 1 ]_vars

\* C4 witness: a session of two frame cycles whose writer has just been released.
C4_Witness ==
    /\ op = "stopWritingVideo"
    /\ Count(ext, "release") = 1
    /\ framesElapsed >= 2
    /\ openWriters = {}

\* C5: while recording from a source whose reported rate is 0, missing or NaN,
\* an exitFrame with a frame that brings the frame count to less than 20
\* constructs no writer and writes no video frame, holds nothing back for
\* later, and leaves the recording pending.
C5_DeferredBelowTwentyFrames ==
    [][ (/\ op' = X
         /\ ret' /= NoFrame
         /\ videoFilename /= None
         /\ Unusable(capFps)
         /\ framesElapsed' < 20)
        => (/\ Count(ext', "VideoWriter") = 0
            /\ Count(ext', "write") = 0
            /\ videoWriter' = NoWriter
            /\ written' = 0
            /\ videoFilename' = videoFilename
            /\ videoEncoding' = videoEncoding) ]_vars

\* C5 witness: the 19th frame of a recording has just been dropped.
C5_Witness ==
    /\ op = X
    /\ ret /= NoFrame
    /\ videoFilename /= None
    /\ Unusable(capFps)
    /\ framesElapsed = 19
    /\ recFrom = 0
    /\ videoWriter = NoWriter

\* a recording begun before the first frame, from a source without a usable rate
FromFirstFrame == recFrom = 0 /\ videoFilename /= None /\ Unusable(capFps)

\* C6: in a recording begun before the first frame from a source reporting no
\* usable rate, the writer is constructed once, in the exitFrame of the 20th
\* frame, and from the 20th frame on each frame is written once, in its own
\* exitFrame, through that writer.
C6_WriterAtTwentiethFrame ==
    FromFirstFrame =>
        /\ built = (IF framesElapsed >= 20 THEN 1 ELSE 0)
        /\ written = (IF framesElapsed >= 20 THEN framesElapsed - 19 ELSE 0)
        /\ (framesElapsed >= 20 => videoWriter /= NoWriter /\ videoWriter.id = 20)
        /\ (framesElapsed < 20 => videoWriter = NoWriter)
        /\ openWriters = (IF framesElapsed >= 20 THEN {20} ELSE {})
        /\ (op = X /\ ret /= NoFrame /\ framesElapsed >= 20 =>
              /\ Count(ext, "write") = 1
              /\ \A i \in Calls(ext, "write") :
                     ext[i][2] = videoWriter /\ ext[i][3] = ret
              /\ Count(ext, "VideoWriter") = (IF framesElapsed = 20 THEN 1 ELSE 0))

\* C6 witness: the 22nd frame of such a recording has just been written.
C6_Witness ==
    /\ FromFirstFrame
    /\ op = X
    /\ ret /= NoFrame
    /\ framesElapsed = 22
    /\ written = 3

\* C7: the rate a writer is constructed with is the reported rate when that
\* is usable, else the running estimate when there is one, else 30; and with
\* a usable reported rate the writer exists after the first exitFrame with a
\* frame that follows startWritingVideo.
C7_WriterRate ==
    /\ \A i \in Calls(ext, "VideoWriter") :
           ext[i][2].fps =
               CASE capFps.kind = "num" /\ capFps.num /= 0 -> capFps
                 [] OTHER -> IF fpsEstimate.kind = "num"
                             THEN fpsEstimate
                             ELSE [kind |-> "num", num |-> 30, den |-> 1]
    /\ (/\ op = X
        /\ ret /= NoFrame
        /\ videoFilename /= None
        /\ capFps.kind = "num" /\ capFps.num /= 0)
       => (videoWriter /= NoWriter /\ videoWriter.id = recFrom + 1)

\* C7 witness: a writer has just been constructed with the running estimate.
C7_Witness ==
    \E i \in Calls(ext, "VideoWriter") :
        /\ Unusable(capFps)
        /\ fpsEstimate /= NoRate
        /\ ext[i][2].fps = fpsEstimate

\* C8 (as claimed): the exitFrame call that follows writeImage writes the
\* frame to the pending filename and clears it.
C8_NextExitFrameWrites ==
    [][ (op' = X /\ imageFilename /= None)
        => (Count(ext', "imwrite") = 1 /\ imageFilename' = None) ]_vars

\* C8 (amended): writeImage writes nothing and makes its filename the pending
\* one; an exitFrame with a frame writes that frame to the pending filename,
\* once, and clears it; an exitFrame without a frame writes nothing and
\* leaves it pending; nothing is written without a pending filename.
C8_NextFrameWrites ==
    [][ /\ (op' = "writeImage" => ext' = <<>> /\ imageFilename' = arg'[1])
        /\ (op' = X /\ ret' /= NoFrame /\ imageFilename /= None =>
                /\ Count(ext', "imwrite") = 1
                /\ \A i \in Calls(ext', "imwrite") :
                       ext'[i][2] = imageFilename /\ ext'[i][3] = ret'
                /\ imageFilename' = None)
        /\ (op' = X /\ ret' = NoFrame =>
                Count(ext', "imwrite") = 0 /\ imageFilename' = imageFilename)
        /\ (op' /= X \/ imageFilename = None => Count(ext', "imwrite") = 0) ]_vars

\* C8 witness: an exitFrame has written the screenshot and cleared the request.
C8_Witness ==
    /\ op = X
    /\ Count(ext, "imwrite") = 1
    /\ imageFilename = None

\* C9: an exitFrame whose read of `frame` yields None changes nothing but the
\* lifecycle flag and the cache, and calls no sink: the frame count, the timer
\* start, the estimate, the pending screenshot, the recording filename and
\* encoding and the writer stay as they were.
C9_ExitWithoutFrameIsNoOp ==
    [][ (op' = X /\ ret' = NoFrame)
        => (/\ framesElapsed' = framesElapsed
            /\ startTime' = startTime
            /\ fpsEstimate' = fpsEstimate
            /\ imageFilename' = imageFilename
            /\ videoFilename' = videoFilename
            /\ videoEncoding' = videoEncoding
            /\ videoWriter' = videoWriter
            /\ SinkCalls(ext') = {}
            /\ enteredFrame' = FALSE
            /\ frame' = NoFrame) ]_vars

\* C9 witness: an exitFrame without a frame has run with a screenshot pending,
\* a writer open and an estimate computed.
C9_Witness ==
    /\ op = X
    /\ ret = NoFrame
    /\ imageFilename /= None
    /\ videoWriter /= NoWriter
    /\ fpsEstimate /= NoRate

\* C10 (as claimed): within one frame cycle the capture source's retrieve is
\* called at most once, by the first read of `frame`.
C10_RetrieveOncePerCycle ==
    retrievals <= 1

\* C11: a frame is cached only while the entered flag is set, and after every
\* exitFrame, with a frame or without one, the manager is idle: the flag is
\* clear and the cache is empty.
C11_CachedOnlyWhileEntered ==
    /\ (frame /= NoFrame => enteredFrame)
    /\ (op = X => ~enteredFrame /\ frame = NoFrame)

\* C11 witness: an exitFrame has consumed a frame that an earlier read of
\* `frame` had cached, and has left the manager idle.
C11_Witness ==
    /\ op = X
    /\ ret /= NoFrame
    /\ Count(ext, "retrieve") = 0
    /\ ~enteredFrame

\* C12: after stopWritingVideo the manager is not recording and holds no
\* writer; the writer it held, if any, is released by that call and nothing
\* else is; every video frame is written to a writer that is open and held;
\* and stopWritingVideo leaves the frame count, the timer, the estimate and
\* the pending screenshot as they were, so also when it has nothing to release.
C12_StopReleasesWriter ==
    [][ /\ (op' = "stopWritingVideo" =>
                /\ videoFilename' = None
                /\ videoWriter' = NoWriter
                /\ (videoWriter /= NoWriter => ext' = << <<"release", videoWriter>> >>)
                /\ (videoWriter = NoWriter => ext' = <<>>)
                /\ framesElapsed' = framesElapsed
                /\ startTime' = startTime
                /\ fpsEstimate' = fpsEstimate
                /\ imageFilename' = imageFilename)
        /\ \A i \in Calls(ext', "write") :
                /\ ext'[i][2] = videoWriter'
                /\ ext'[i][2].id \in openWriters'
                /\ \A j \in Calls(ext', "release") : j < i => ext'[j][2] /= ext'[i][2] ]_vars

\* C12 witness: a recording that wrote a frame has been stopped, its writer
\* released, while a screenshot was pending.
C12_Witness ==
    /\ op = "stopWritingVideo"
    /\ Count(ext, "release") = 1
    /\ imageFilename /= None
    /\ videoWriter = NoWriter
    /\ videoFilename = None

\* C13: the frame count rises by one in each exitFrame with a frame and in no
\* other step, so it is the number N of such calls; the timer start is set
\* once, to the time of the first of them, and no other step changes it; and
\* after the N-th of them, N >= 2, with a positive time elapsed since the
\* first, the estimate is (N-1) / elapsed.  An exitFrame without a frame,
\* startWritingVideo and stopWritingVideo change none of the three.
C13_FpsEstimate ==
    [][ IF op' = X /\ ret' /= NoFrame
        THEN /\ framesElapsed' = framesElapsed + 1
             /\ startTime' = (IF framesElapsed = 0 THEN now ELSE startTime)
             /\ (framesElapsed' >= 2 /\ now - startTime' > 0 =>
                     fpsEstimate' = [kind |-> "num",
                                     num  |-> framesElapsed' - 1,
                                     den  |-> now - startTime'])
        ELSE /\ framesElapsed' = framesElapsed
             /\ startTime' = startTime
             /\ fpsEstimate' = fpsEstimate ]_vars

\* C13 witness: the third exitFrame with a frame has returned, two ticks after
\* the first, with the estimate 2 / 2.
C13_Witness ==
    /\ op = X
    /\ ret /= NoFrame
    /\ framesElapsed = 3
    /\ startTime = 0
    /\ now = 2
    /\ fpsEstimate = [kind |-> "num", num |-> 2, den |-> 2]

\* processEvents hands key k to onKeypress in this step
Pressed(k) ==
    /\ pc \in {"events", "eventsNoFrame"}
    /\ pc' = "test"
    /\ key' /= -1
    /\ key' % 256 = k

\* C14: a tab press calls startWritingVideo('screencast.avi') when the manager
\* is not recording and stopWritingVideo when it is; the manager is recording
\* exactly when an odd number of tabs has been pressed, and after an even
\* number it holds no writer and none is open.
C14_TabTogglesRecording ==
    [][ /\ (Pressed(9) /\ videoFilename = None =>
                /\ op' = "startWritingVideo"
                /\ arg' = <<"screencast.avi", None>>
                /\ videoFilename' = "screencast.avi")
        /\ (Pressed(9) /\ videoFilename /= None =>
                /\ op' = "stopWritingVideo"
                /\ videoFilename' = None)
        /\ ((videoFilename' /= None) <=> tabsOdd')
        /\ (~tabsOdd' => videoWriter' = NoWriter /\ openWriters' = {}) ]_vars

\* C14 witness: the second tab has stopped a recording whose writer had been
\* constructed.
C14_Witness ==
    /\ key = 9
    /\ op = "stopWritingVideo"
    /\ ~tabsOdd
    /\ Count(ext, "release") = 1
    /\ pc = "test"

\* C15: a 'next filter' press takes the index from i to (i+1) mod 9 and no
\* other step changes it; the index is always in 0..8; after k presses it is
\* k mod 9, so nine presses from any index lead back to it, and the ninth
\* press of a run selects the entry 'none' at index 0.
C15_FilterIndexCycles ==
    [][ /\ (Pressed(102) => filterIndex' = (filterIndex + 1) % 9)
        /\ (~Pressed(102) => filterIndex' = filterIndex)
        /\ filterIndex' \in 0..8
        /\ (nextPresses' < MaxNextPresses => filterIndex' = nextPresses' % 9)
        /\ (nextPresses' = 9 => Filters[filterIndex' + 1] = "none") ]_vars

\* C15 witness: the ninth press has wrapped the index back to 0.
C15_Witness ==
    /\ key = 102
    /\ op = "nextFilter"
    /\ nextPresses = 9
    /\ filterIndex = 0
    /\ pc = "test"

\* a step of Cameo.run
RunStep ==
    \/ RunCreateWindow
    \/ RunTest
    \/ RunEnterFrame
    \/ RunReadFrame
    \/ RunExitNoFrame
    \/ RunEventsNoFrame
    \/ RunFilter
    \/ RunExitFrame
    \/ RunEvents

\* C16: a quit key (q or Esc) closes the window; once it is closed the only
\* step run takes is the loop-condition check, which ends run, and nothing
\* happens after that: no enterFrame, no filter, no exitFrame, no display, no
\* event processing.  run ends in no other way: it leaves the loop only with
\* the window closed by a quit key, it is never ended by an error, and while
\* the window is open it always has a next step, also after iterations whose
\* capture failed.
C16_QuitEndsRun ==
    /\ [][ /\ (Pressed(113) \/ Pressed(27) =>
                  /\ ~isWindowCreated'
                  /\ Count(ext', "destroyWindow") = 1)
           /\ (pc /= "start" /\ ~isWindowCreated =>
                  /\ pc \in {"test", "done"}
                  /\ op' \in {"test", "tick"}
                  /\ ext' = <<>>
                  /\ pc' = (IF op' = "test" THEN "done" ELSE pc)
                  /\ mgr' = mgr
                  /\ ~isWindowCreated')
           /\ (pc = "done" => op' = "tick")
           /\ (pc' = "done" /\ pc /= "done" =>
                  /\ pc = "test"
                  /\ ~isWindowCreated
                  /\ key % 256 \in {113, 27})
           /\ pc' /= "crashed" ]_vars
    /\ [](pc /= "done" => ENABLED RunStep)

\* C16 witness: run has returned after Esc, pressed in an iteration that
\* followed one whose capture failed.
C16_Witness ==
    /\ pc = "done"
    /\ key = 27
    /\ ~isWindowCreated
    /\ framesElapsed = 0
    /\ lifecycle = <<E, X>>

\* C17: an exitFrame with a frame shows one frame when a preview sink is
\* attached and none otherwise; with mirroring enabled the frame shown is the
\* cached frame with its columns in reverse order, else the cached frame;
\* the screenshot and the video writer receive the cached frame as it was
\* read, unmirrored, after the preview step; and the screenshot and video
\* steps run whether or not a preview sink is attached.
C17_MirrorOnlyPreview ==
    (op = X /\ ret /= NoFrame) =>
        /\ Count(ext, "show") = (IF previewWindowManager THEN 1 ELSE 0)
        /\ \A i \in Calls(ext, "show") :
               IF shouldMirrorPreview
               THEN /\ ext[i][2].fx = ret.fx
                    /\ Len(ext[i][2].px) = Len(ret.px)
                    /\ \A c \in 1..Len(ret.px) :
                           ext[i][2].px[c] = ret.px[Len(ret.px) + 1 - c]
               ELSE ext[i][2] = ret
        /\ \A i \in Calls(ext, "imwrite") \cup Calls(ext, "write") :
               /\ ext[i][3] = ret
               /\ \A j \in Calls(ext, "show") : j < i
        /\ Count(ext, "write") = (IF videoWriter /= NoWriter THEN 1 ELSE 0)

\* C17 witness: an exitFrame has shown the mirror image of an asymmetric frame
\* and has written the frame itself to a screenshot and to the video.
C17_Witness ==
    /\ op = X
    /\ shouldMirrorPreview
    /\ \E i \in Calls(ext, "show") : ext[i][2] /= ret
    /\ \E i \in Calls(ext, "imwrite") : ext[i][3] = ret
    /\ \E i \in Calls(ext, "write") : ext[i][3] = ret

\* C17 witness of the case without a preview sink: a screenshot and a video
\* frame are written although nothing is shown.
C17_NoPreviewWitness ==
    /\ op = X
    /\ ~previewWindowManager
    /\ Count(ext, "show") = 0
    /\ Count(ext, "imwrite") = 1
    /\ Count(ext, "write") = 1

\* C18: an iteration of run whose read of `frame` returned a frame goes
\* through the filter step, once, before exitFrame; the step applies the entry
\* at the current index and no other, in place, by exactly one call: strokeEdges
\* for 'stroke', the `apply` of the tuple's object for the other seven; for
\* 'none' it calls nothing and leaves the frame as it is; and the frame that
\* exitFrame then shows and records is the frame so filtered.
C18_OneFilterPerFrame ==
    [][ /\ (pc = "read" /\ op' = "frame" /\ ret' /= NoFrame => pc' = "filter")
        /\ (pc' = "exit" /\ pc /= "exit" => pc = "filter" /\ op' = "filter")
        /\ (pc = "filter" /\ op' = "filter" =>
                /\ frame.fx = <<>>
                /\ frame'.px = frame.px
                /\ CASE filterIndex = 0 ->
                            ext' = <<>> /\ frame' = frame
                       [] filterIndex = 1 ->
                            /\ ext' = << <<"filters.strokeEdges", "stroke">> >>
                            /\ frame'.fx = <<"stroke">>
                       [] OTHER ->
                            /\ ext' = << <<"entry[1].apply", Filters[filterIndex + 1]>> >>
                            /\ frame'.fx = <<Filters[filterIndex + 1]>>)
        /\ (pc = "exit" /\ op' = X =>
                /\ ret' = frame
                /\ Count(ext', "retrieve") = 0
                /\ Count(ext', "show") = 1
                /\ \A i \in Calls(ext', "show") : ext'[i][2].fx = frame.fx
                /\ \A i \in Calls(ext', "imwrite") \cup Calls(ext', "write") :
                       ext'[i][3] = frame) ]_vars

\* C18 witness: an exitFrame has shown, saved and recorded a frame to which
\* the emboss entry had been applied.
C18_Witness ==
    /\ pc = "events"
    /\ op = X
    /\ ret.fx = <<"emboss">>
    /\ filterIndex = 8
    /\ Count(ext, "show") = 1
    /\ Count(ext, "imwrite") = 1
    /\ Count(ext, "write") = 1

\* the inputs of a lookup array, as rationals
Levels == {Rat(x, 1) : x \in 0..255}

\* what a lookup array of 256 entries holds for the value v: v cut to
\* 0..255 and stored as a whole number
Held(v) == Stored(v, 256)

\* u and v are the same number
SameValue(u, v) ==
    IF Len(u) = 2 /\ Len(v) = 2 THEN SameRat(u, v)
    ELSE LET a == IF Len(u) = 2 THEN Big(u) ELSE u
             b == IF Len(v) = 2 THEN Big(v) ELSE v
         IN  ZSign(ZMinus(ZTimes(<<a[1], a[2]>>, <<b[3], <<>>>>),
                          ZTimes(<<b[1], b[2]>>, <<a[3], <<>>>>))) = 0

\* the table built for the channel function ch and the value function v
ChannelTableIsComposite(table, ch, v) ==
    /\ (table = <<>>) <=> (~ch.present /\ ~v.present)
    /\ (ch.present /\ v.present =>
            \A x \in 0..255 : table[x + 1] = Held(Call(ch, Call(v, Rat(x, 1)))))
    /\ (ch.present /\ ~v.present =>
            \A x \in 0..255 : table[x + 1] = Held(Call(ch, Rat(x, 1))))
    /\ (~ch.present /\ v.present =>
            \A x \in 0..255 : table[x + 1] = Held(Call(v, Rat(x, 1))))

\* C19: createCompositeFunc(f, g) is x -> f(g(x)) when both are present; with
\* one of them None it is the other one; with both None it is None.  Each
\* lookup array of BGRFuncFilter, and so of the curve filter built on it,
\* holds, for input x, the value channelFunc(valueFunc(x)) (the value
\* function first, its result not rounded), cut to 0..255; with one function
\* absent it is the table of the other; and there is no table exactly when
\* both are absent.
C19_CompositeFunc ==
    /\ (op = "createCompositeFunc" =>
          /\ (arg[1].present /\ arg[2].present =>
                /\ ret.present
                /\ \A x \in Levels :
                       SameValue(Call(ret, x), Call(arg[1], Call(arg[2], x))))
          /\ (arg[1].present /\ ~arg[2].present => ret = arg[1])
          /\ (~arg[1].present /\ arg[2].present => ret = arg[2])
          /\ (~arg[1].present /\ ~arg[2].present => ret = NoFunc))
    /\ (op = "BGRFuncFilter" =>
          /\ ChannelTableIsComposite(ret.bLookupArray, arg[2], arg[1])
          /\ ChannelTableIsComposite(ret.gLookupArray, arg[3], arg[1])
          /\ ChannelTableIsComposite(ret.rLookupArray, arg[4], arg[1]))
    /\ (op = "BGRCurveFilter" =>
          /\ ChannelTableIsComposite(ret.bLookupArray, CreateCurveFunc(arg[2]),
                                     CreateCurveFunc(arg[1]))
          /\ ChannelTableIsComposite(ret.gLookupArray, CreateCurveFunc(arg[3]),
                                     CreateCurveFunc(arg[1]))
          /\ ChannelTableIsComposite(ret.rLookupArray, CreateCurveFunc(arg[4]),
                                     CreateCurveFunc(arg[1])))

\* C19 witness: a filter has been built whose blue table is 2 * (x/2) = x,
\* whose green table is that of the value function alone, and whose value
\* and red functions do not commute.
C19_Witness ==
    /\ op = "BGRFuncFilter"
    /\ arg = <<Fn(<< <<1, 0, 2>> >>), Fn(<< <<2, 0, 1>> >>), NoFunc, Fn(<< <<1, 1, 1>> >>)>>
    /\ ret.bLookupArray[4] = 3
    /\ ret.gLookupArray[4] = 1
    /\ ret.rLookupArray[4] = 2

\* the sum of the weights of a kernel, times its denominator
WeightSum(kernel) ==
    LET cells == (1..Len(kernel.rows)) \X (1..Len(kernel.rows[1]))
    IN  SumOver([ij \in cells |-> kernel.rows[ij[1]][ij[2]]], cells)

\* every pixel of img has the colour c
IsUniform(img, c) ==
    \A y \in 1..Len(img) : \A x \in 1..Len(img[y]) : img[y][x] = c

SameSize(a, b) ==
    /\ Len(a) = Len(b)
    /\ \A y \in 1..Len(a) : Len(a[y]) = Len(b[y])

\* C20 (as claimed): the weights of each of the four fixed kernels (sharpen,
\* edge-detect, box blur, emboss) sum to 1, and each of the four filters
\* returns a uniform image as it was: same size, same colour.
C20_UniformStaysUniform ==
    (op = "apply" /\ arg[1] \in {"sharpen", "findEdges", "blur", "emboss"}) =>
        /\ WeightSum(KernelOf(arg[1])) = KernelOf(arg[1]).den
        /\ ((\E c \in Colours : IsUniform(arg[2], c)) => ret = arg[2])

\* C20 (amended): the weights of the sharpen, box blur and emboss kernels sum
\* to 1, and these three filters return a uniform image as it was: same size,
\* same colour.  The weights of the edge-detect kernel sum to 0, and that
\* filter returns a uniform image of any colour as a black image of the same
\* size.
C20_UniformExceptEdges ==
    /\ (op = "apply" /\ arg[1] \in {"sharpen", "blur", "emboss"} =>
           /\ WeightSum(KernelOf(arg[1])) = KernelOf(arg[1]).den
           /\ ((\E c \in Colours : IsUniform(arg[2], c)) => ret = arg[2]))
    /\ (op = "apply" /\ arg[1] = "findEdges" =>
           /\ WeightSum(KernelOf(arg[1])) = 0
           /\ ((\E c \in Colours : IsUniform(arg[2], c)) =>
                  SameSize(ret, arg[2]) /\ IsUniform(ret, <<0, 0, 0>>)))

\* C20 witness: the emboss filter has returned a flat mid-grey image, smaller
\* than its kernel in height, as it was.
C20_Witness ==
    /\ op = "apply"
    /\ arg[1] = "emboss"
    /\ Len(arg[2]) = 1
    /\ Len(arg[2][1]) = 3
    /\ IsUniform(arg[2], <<128, 128, 128>>)
    /\ IsUniform(ret, <<128, 128, 128>>)

\* C21: strokeEdges on an image of one colour finds an edge magnitude of 0 at
\* every pixel, so every channel value is multiplied by exactly 1, and the
\* destination ends up equal to the source as it was, pixel for pixel, also
\* when the destination is the source buffer; a distinct source is left as it
\* was.
C21_StrokeEdgesUniform ==
    (op = "strokeEdges" /\ (\E c \in Colours : IsUniform(arg[3][arg[1]], c))) =>
        /\ \A i \in Calls(ext, "Laplacian") :
               /\ SameSize(ext[i][2], arg[3][arg[1]])
               /\ \A y \in 1..Len(ext[i][2]) : \A x \in 1..Len(ext[i][2][y]) :
                      ext[i][2][y][x] = 0
        /\ Count(ext, "Laplacian") = 1
        /\ ret[arg[2]] = arg[3][arg[1]]
        /\ ret[arg[1]] = arg[3][arg[1]]

\* C21 witness: strokeEdges has run in place on a uniform image of a mixed
\* colour, three by three, and left it as it was.
C21_Witness ==
    /\ op = "strokeEdges"
    /\ arg[1] = 1
    /\ arg[2] = 1
    /\ Len(arg[3][1]) = 3
    /\ Len(arg[3][1][1]) = 3
    /\ IsUniform(arg[3][1], <<10, 200, 90>>)
    /\ IsUniform(ret[1], <<10, 200, 90>>)

\* C21, the contrast: on an image with one pixel of another colour
\* strokeEdges darkens pixels.
C21_EdgesDarken ==
    /\ op = "strokeEdges"
    /\ ~(\E c \in Colours : IsUniform(arg[3][1], c))
    /\ ret[arg[2]] /= arg[3][1]

\* C22: applyLookupArray with a table leaves in dst, for every element i, the
\* table's entry for the value src[i] had before the call, also when dst is
\* the buffer src, and changes no other buffer; with no table it leaves every
\* buffer as it was.
C22_ApplyLookupArray ==
    op = "applyLookupArray" =>
        IF arg[1] = <<>>
        THEN ret = arg[4]
        ELSE /\ Len(ret[arg[3]]) = Len(arg[4][arg[2]])
             /\ \A i \in 1..Len(arg[4][arg[2]]) :
                    ret[arg[3]][i] = arg[1][arg[4][arg[2]][i] + 1]
             /\ \A b \in {1, 2} \ {arg[3]} : ret[b] = arg[4][b]

\* C22 witness: the table of x+1 has been applied in place to an array of
\* three elements, each mapped once.
C22_Witness ==
    /\ op = "applyLookupArray"
    /\ arg[2] = arg[3]
    /\ arg[1] /= <<>>
    /\ arg[4][1] = <<0, 3, 128>>
    /\ ret[1] = <<1, 4, 129>>

\* C22 witness of the other case: no table, and dst still holds its sevens.
C22_NoTableWitness ==
    /\ op = "applyLookupArray"
    /\ arg[1] = <<>>
    /\ arg[3] = 2
    /\ ret[2] = <<7, 7>>

\* C23: createLookupArray(func, length) returns None when func is None;
\* otherwise the table has exactly `length` entries, entry i is func(i)
\* clamped into 0..length-1 (as the whole number the float array holds for
\* it), and so every entry lies in 0..length-1.
C23_ClampedTable ==
    op = "createLookupArray" =>
        IF ~arg[1].present THEN ret = NoTable
        ELSE /\ Len(ret) = arg[2]
             /\ \A i \in 0..(arg[2] - 1) :
                    /\ ret[i + 1] = Stored(Call(arg[1], Rat(i, 1)), arg[2])
                    /\ ret[i + 1] \in 0..(arg[2] - 1)

\* C24: processEvents calls the registered key callback exactly once, with
\* the low 8 bits of the key code polled, when a key was pressed; it does
\* not call it when no key was pressed (-1) or when no callback is
\* registered.
C24_CallbackOncePerKey ==
    op = "processEvents" =>
        /\ (keypressCallback /= None /\ arg[1] /= -1
               => ext = << <<keypressCallback, arg[1] % 256>> >>)
        /\ (keypressCallback = None \/ arg[1] = -1 => ext = <<>>)
        /\ Len(ext) <= 1

\* a key code above 255 was polled: the callback got its low 8 bits, once
C24_Witness ==
    /\ op = "processEvents"
    /\ arg = <<288>>
    /\ ext = << <<"callback", 32>> >>

\* a key was pressed and no callback is registered: nothing is called
C24_NoCallbackWitness ==
    /\ op = "processEvents"
    /\ arg = <<32>>
    /\ keypressCallback = None
    /\ ext = <<>>

\* C25: the lookup table built from the value curve through (0,0), (23,20),
\* (157,173), (255,255) holds 0, 20, 173 and 255 at the inputs 0, 23, 157
\* and 255, and never decreases over 0..255.
C25_PortraValueTable ==
    (/\ op = "VCurveFilter"
     /\ arg = <<Points(<< <<0, 0>>, <<23, 20>>, <<157, 173>>, <<255, 255>> >>)>>)
    => LET table == ret.vLookupArray
       IN /\ Len(table) = 256
          /\ table[0 + 1] = 0
          /\ table[23 + 1] = 20
          /\ table[157 + 1] = 173
          /\ table[255 + 1] = 255
          /\ \A i \in 0..254 : table[i + 1] <= table[i + 2]

\* the table of that curve was built, and it bends: at the input 90,
\* between the inner points, it holds 93 where the straight line gives 96
C25_Witness ==
    /\ op = "VCurveFilter"
    /\ arg = <<Points(<< <<0, 0>>, <<23, 20>>, <<157, 173>>, <<255, 255>> >>)>>
    /\ ret.vLookupArray[90 + 1] = 93

\* C26: a pending screenshot request is never lost: only writeImage changes
\* the pending filename to another one, an exitFrame without a frame leaves
\* it as it is, and an exitFrame with a frame writes that frame to the
\* filename pending then, once, and clears it.  So of several writeImage
\* calls before that exitFrame only the last filename is written.
C26_PendingScreenshotKept ==
    [][ /\ (imageFilename /= None /\ imageFilename' /= imageFilename =>
                \/ op' = "writeImage" /\ imageFilename' = arg'[1]
                \/ /\ op' = X /\ ret' /= NoFrame
                   /\ imageFilename' = None
                   /\ Count(ext', "imwrite") = 1
                   /\ \A i \in Calls(ext', "imwrite") :
                          ext'[i] = <<"imwrite", imageFilename, ret'>>)
        /\ (imageFilename /= None /\ op' = X /\ ret' = NoFrame =>
                imageFilename' = imageFilename /\ Count(ext', "imwrite") = 0)
        /\ (imageFilename /= None /\ op' = X /\ ret' /= NoFrame =>
                imageFilename' = None /\ Count(ext', "imwrite") = 1)
        /\ (Count(ext', "imwrite") > 0 =>
                op' = X /\ ret' /= NoFrame /\ imageFilename /= None) ]_vars

\* an exitFrame had a frame and a request pending: it has written the
\* frame to "other.png", once, and cleared the request
C26_Witness ==
    /\ op = X
    /\ ret /= NoFrame
    /\ Count(ext, "imwrite") = 1
    /\ \E i \in Calls(ext, "imwrite") : ext[i] = <<"imwrite", "other.png", ret>>
    /\ imageFilename = None

\* an exitFrame that came right after another exitFrame had no frame: the
\* request is still pending
C26_KeptWitness ==
    /\ op = X
    /\ ret = NoFrame
    /\ lifecycle = <<X, X>>
    /\ imageFilename = "other.png"

\* the operations that onKeypress carries out
KeyCommands == {"writeImage", "startWritingVideo", "stopWritingVideo",
                "nextFilter", "destroyWindow", "onKeypress"}

\* C27: in Cameo.run a key command is handled only by the processEvents
\* that follows an exitFrame and precedes the next enterFrame: the manager
\* is idle and holds no frame before and after it, and the command shows
\* and writes nothing; so what it asks for can affect only the frame of the
\* next iteration, never the frame already shown.
C27_CommandsBetweenFrames ==
    [][ op' \in KeyCommands =>
            /\ pc \in {"events", "eventsNoFrame"}
            /\ pc' = "test"
            /\ lifecycle /= <<>> /\ lifecycle[Len(lifecycle)] = X
            /\ lifecycle' = lifecycle
            /\ ~enteredFrame /\ frame = NoFrame
            /\ ~enteredFrame' /\ frame' = NoFrame
            /\ framesElapsed' = framesElapsed
            /\ \A i \in DOMAIN ext' :
                   ext'[i][1] \notin {"show", "imwrite", "VideoWriter", "write"} ]_vars

\* a screenshot was asked for after a frame had been shown: nothing was
\* written, the request waits for the next iteration
C27_Witness ==
    /\ op = "writeImage"
    /\ pc = "test"
    /\ lifecycle = <<E, X>>
    /\ framesElapsed = 1
    /\ imageFilename = "screenshot.png"
    /\ ext = <<>>

\* C28: when run() has returned after a quit key, no video writer that was
\* constructed remains unreleased, whatever the recording state was when
\* the key was pressed.
C28_NoWriterLeftAtReturn ==
    pc = "done" => openWriters = {}

\* C29: in every reachable state, whatever the order of startWritingVideo,
\* stopWritingVideo, writeImage, enterFrame and exitFrame calls, a video
\* writer exists only while a recording is pending: a writer present
\* implies isWritingVideo.
C29_WriterOnlyWhileRecording ==
    videoWriter /= NoWriter => videoFilename /= None

\* startWritingVideo was called while a writer was held: the writer is
\* kept and the manager is recording
C29_Witness ==
    /\ op = "startWritingVideo"
    /\ videoWriter /= NoWriter
    /\ videoFilename = "other.avi"

\* C30: every video frame written goes to a writer constructed with the
\* filename and the encoding given by the most recent startWritingVideo
\* call (the ones the manager holds), also when startWritingVideo was
\* called again while recording.
C30_FramesGoToLatestRecording ==
    op = X =>
        \A i \in Calls(ext, "write") :
            /\ ext[i][2].filename = videoFilename
            /\ ext[i][2].encoding = videoEncoding

\* C31: onKeypress changes only the state its command owns: space only the
\* pending screenshot filename, tab only the recording filename, encoding
\* and writer, the next-filter key only the filter index, the quit keys
\* only the window-open flag, and any other key code nothing.
C31_OnKeypressFrame ==
    [][ LET k == key' % 256
        IN Pressed(k) =>
            /\ UNCHANGED <<previewWindowManager, shouldMirrorPreview, channel,
                           enteredFrame, frame, startTime, framesElapsed,
                           fpsEstimate, keypressCallback>>
            /\ (k /= 32 => UNCHANGED imageFilename)
            /\ (k /= 9 => UNCHANGED <<videoFilename, videoEncoding, videoWriter>>)
            /\ (k /= 102 => UNCHANGED filterIndex)
            /\ (k \notin {113, 27} => UNCHANGED isWindowCreated) ]_vars

\* a quit key was handled while a writer was held: the window is closed,
\* the recording and its writer are as they were
C31_Witness ==
    /\ op = "destroyWindow"
    /\ pc = "test"
    /\ key \in {113, 27}
    /\ ~isWindowCreated
    /\ videoWriter /= NoWriter
    /\ videoFilename = "screencast.avi"

\* a key with no command was handled while a screenshot was pending and the
\* manager was recording
C31_OtherKeyWitness ==
    /\ op = "onKeypress"
    /\ key = 65
    /\ imageFilename /= None
    /\ videoFilename /= None

====
